---- MODULE Spec2Model ----
(***************************************************************************)
(* sentient_core: the LLM engine worker thread (src/llm_engine.rs), the    *)
(* two bounded crossbeam channels that connect it to the UI thread, and    *)
(* the part of the main/UI thread that feeds and drains those channels     *)
(* (src/main.rs, src/chat.rs).                                             *)
(*                                                                         *)
(* Rust values are encoded as follows:                                     *)
(*   Option<T>   a sequence of length 0 (None) or 1 (Some(x))              *)
(*   String      a sequence of ASCII codes when its letters matter (model  *)
(*               names and paths, compared with eq_ignore_ascii_case),     *)
(*               a TLA+ string otherwise                                   *)
(***************************************************************************)
EXTENDS Integers, Sequences, FiniteSets, TLC

\* ------------------------------------------------------------------ bounds
\* number of TextInference requests the UI submits in one run of Spec
MaxRequests == 3
\* number of TextInference requests the UI submits in one run of SpecFlood
MaxFlood == 22
\* number of turns of the conversations prompts are assembled for
MaxTurns == 3
\* width of a usize in bits (TLC's integers have 32)
UsizeBits == 20
\* number of TextInference requests the chat view sends in one run of SpecChat
MaxChatRequests == 1
\* number of turns of the chat log up to which the user types a reply
MaxChatTurns == 2
\* number of pieces (a few words, or a name and a colon) of a generated text
MaxPieces == 3
\* number of lines of the turn that is chunked for its embeddings
MaxLines == 3

\* ------------------------------------------------------- program constants
\* bounded::<LlmEngineRequest>(10) and bounded::<LlmEngineResponse>(10)
RequestCapacity == 10
ResponseCapacity == 10

\* DEFAULT_NUM_OF_SENTENCE_MATCHES, DEFAULT_TEXT_TO_TOKEN_RATIO (3.0) and
\* DEFAULT_MAX_NEW_TOKENS
DEFAULT_NUM_OF_SENTENCE_MATCHES == 3
DEFAULT_TEXT_TO_TOKEN_RATIO == 3
DEFAULT_MAX_NEW_TOKENS == 150

\* ------------------------------------------------------------------ Option
None == <<>>
Some(x) == <<x>>
IsSome(o) == Len(o) = 1
Unwrap(o) == o[1]

\* the last element of a non-empty sequence
Last(q) == q[Len(q)]

\* ----------------------------------------------------------------- strings
\* u8::to_ascii_lowercase
ToAsciiLowercase(c) == IF c >= 65 /\ c <= 90 THEN c + 32 ELSE c

\* str::eq_ignore_ascii_case
EqIgnoreAsciiCase(a, b) ==
    /\ Len(a) = Len(b)
    /\ \A i \in 1..Len(a) : ToAsciiLowercase(a[i]) = ToAsciiLowercase(b[i])

\* "lm", "LM", "kb", "zz" and the path "/m"
NameLocal == <<108, 109>>
NameLocalUpper == <<76, 77>>
NameRemote == <<107, 98>>
NameMissing == <<122, 122>>
PathLocal == <<47, 109>>

\* -------------------------------------------------------------- text values
\* A String whose content matters to the prompt is a sequence of units: a
\* unit is one character ("A", ":", " ", "\n"), or a run of bytes that is
\* only ever handled as a whole: a template placeholder ("<|chat_history|>")
\* or the text a backend returned ("text"). Len(u) is the unit's byte length.
RECURSIVE StrLen(_), Replace(_, _, _), TrimEnd(_), TrimStart(_), Join(_, _)
RECURSIVE Lines(_)
StrLen(s) == IF s = <<>> THEN 0 ELSE Len(Head(s)) + StrLen(Tail(s))

\* char::is_whitespace for the units in use
IsWhitespace(u) == u \in {" ", "\n", "\t", "\r"}

\* str::contains and str::replace for a placeholder
Contains(s, placeholder) == \E i \in 1..Len(s) : s[i] = placeholder

Replace(s, placeholder, to) ==
    IF s = <<>> THEN <<>>
    ELSE (IF Head(s) = placeholder THEN to ELSE <<Head(s)>>)
             \o Replace(Tail(s), placeholder, to)

\* str::starts_with
StartsWith(s, prefix) ==
    Len(prefix) <= Len(s) /\ SubSeq(s, 1, Len(prefix)) = prefix

\* str::trim_end, str::trim_start and str::trim
TrimEnd(s) ==
    IF s # <<>> /\ IsWhitespace(s[Len(s)])
    THEN TrimEnd(SubSeq(s, 1, Len(s) - 1))
    ELSE s

TrimStart(s) ==
    IF s # <<>> /\ IsWhitespace(Head(s)) THEN TrimStart(Tail(s)) ELSE s

Trim(s) == TrimStart(TrimEnd(s))

\* [String]::join(sep)
Join(strs, sep) ==
    IF strs = <<>> THEN <<>>
    ELSE IF Len(strs) = 1 THEN Head(strs)
    ELSE Head(strs) \o sep \o Join(Tail(strs), sep)

\* str::lines: the pieces between "\n"; a final empty piece is not a line
Lines(s) ==
    IF s = <<>> THEN <<>>
    ELSE LET breaks == {i \in 1..Len(s) : s[i] = "\n"}
         IN  IF breaks = {} THEN <<s>>
             ELSE LET first == CHOOSE i \in breaks : \A j \in breaks : i <= j
                  IN  <<SubSeq(s, 1, first - 1)>>
                          \o Lines(SubSeq(s, first + 1, Len(s)))

\* &s[n..] for a string of one-byte units: None when n is past the end (the
\* slice panics)
SliceFrom(s, n) == IF n > Len(s) THEN None ELSE Some(SubSeq(s, n + 1, Len(s)))

\* ------------------------------------------------------------ configuration
\* ConfiguredLlm: the fields the worker loop reads
ConfiguredLlm(n, p, r) == [name |-> n, path |-> p, remote_server |-> r]

\* ConfigurationFile.models: one local model and one remote (KoboldAPI) model
ConfigModels ==
    << ConfiguredLlm(NameLocal, Some(PathLocal), None),
       ConfiguredLlm(NameRemote, None, Some("http://host:5001")) >>

\* ConfigurationFile::find_model_configuration: the first model whose name,
\* or whose local path when it has one, matches ignoring ASCII case
FindModelConfiguration(name_or_path) ==
    LET Matches(m) ==
            IF IsSome(m.path)
            THEN \/ EqIgnoreAsciiCase(m.name, name_or_path)
                 \/ EqIgnoreAsciiCase(Unwrap(m.path), name_or_path)
            ELSE EqIgnoreAsciiCase(m.name, name_or_path)
        hits == SelectSeq(ConfigModels, Matches)
    IN  IF hits = <<>> THEN None ELSE Some(hits[1])

\* ---------------------------------------------------- characters, chat logs
\* CharacterFileYaml: the fields the prompt and the chat view read
CharacterFileYaml(n, d) == [name |-> n, description |-> d]

Alice == CharacterFileYaml(<<"A", "l", "i", "c", "e">>, <<"k", "i", "n", "d">>)
Bob == CharacterFileYaml(<<"B", "o", "b">>, <<"s", "h", "y">>)

\* ConfigurationFile.display_name
DisplayName == <<"U", "s", "e", "r">>

\* ChatLogItem; an embedding is modelled by the text it was computed from
ChatLogItem(e, l, emb) == [entity |-> e, lines |-> l, embeddings |-> emb]

\* ChatLogItem::new_from_str
NewFromStr(entity, s) == ChatLogItem(entity, Lines(s), <<>>)

\* ChatLogItem::add_to_last
AddToLast(item, s) ==
    IF item.lines = <<>>
    THEN [item EXCEPT !.lines = <<s>>]
    ELSE LET last == item.lines[Len(item.lines)] \o s
         IN  [item EXCEPT
                !.lines = SubSeq(item.lines, 1, Len(item.lines) - 1) \o Lines(last)]

\* ChatLogItem::get_name_and_items_as_string
GetNameAndItemsAsString(item) ==
    item.entity \o <<":", " ">> \o Join(item.lines, <<"\n">>)

\* Participant and ChatLog: the fields the prompt and the chat view read
Participant(cfg_name, filepath) ==
    [model_config_name |-> cfg_name, character_filepath |-> filepath]

ChatLog(ctx, user_desc, others, its) ==
    [current_context |-> ctx, user_description |-> user_desc,
     other_participants |-> others, items |-> its]

\* TextInferenceContext with every field of the struct; parameters is the
\* name of the ConfiguredParameters
FullTextInferenceContext(character, ovr, owner, others, chatlog, cont, params) ==
    [character |-> character, model_config_override |-> ovr,
     chatlog_owner |-> owner, other_participants |-> others,
     chatlog |-> chatlog, should_continue |-> cont, parameters |-> params]

\* CharacterFileYaml::load_character for the files next to the chat log
LoadCharacter(filepath) == IF filepath = "bob.yaml" THEN Bob ELSE Alice

\* ChatState::new: the fields of the chat view that requests and responses touch
ChatStateNew(character, chatlog) ==
    [character |-> character,
     other_participants |-> <<>>,
     chatlog |-> chatlog,
     chatlog_scroll |-> 0,
     manual_reply_mode |-> FALSE,
     editing_reply |-> FALSE,
     waiting_for_operation |-> FALSE,
     waiting_for_character |-> None,
     in_flight_text |-> None,
     progress_widget |-> None,
     modal_messagebox |-> None]

\* the chat log the application opens: Alice's log with her greeting, and Bob
\* as another participant who is generated with the remote model
OpenedChatLog ==
    ChatLog(<<"p", "a", "r", "k">>, None,
            Some(<<Participant(Some(NameRemote), "bob.yaml")>>),
            <<NewFromStr(Alice.name, <<"H", "e", "l", "l", "o", "!">>)>>)

\* ---------------------------------------------------------------- messages
\* TextInferenceContext: id identifies the request's chatlog snapshot
TextInferenceContext(i, ovr) == [id |-> i, model_config_override |-> ovr]

\* LlmEngineRequest
TextInference(ctx) == [type |-> "TextInference", context |-> ctx]
ImmediateShutdown == [type |-> "ImmediateShutdown"]

\* LlmEngineResponse
NewText(text, ctx) == [type |-> "NewText", text |-> text, context |-> ctx]
ModelLoaded == [type |-> "ModelLoaded"]

\* the model_config_override values the UI puts in a request
\* (None for the chatlog owner, a participant's configured override otherwise)
Overrides ==
    {None, Some(NameLocal), Some(NameLocalUpper), Some(NameRemote), Some(NameMissing)}

\* command-line values of -m (model-file-or-name); main does not validate it
ModelFileOrNames == {NameLocal, NameRemote, NameMissing}

\* --------------------------------------------------------- backend outcomes
\* what the KoboldAPI call can do (text_infer_kobold)
RemoteOutcomes ==
    {"ok", "status_not_ok", "empty_results",
     "send_failed", "body_unreadable", "bad_json"}

\* what session.infer can do (text_infer)
LocalOutcomes == {"ok", "infer_error"}

VARIABLES
    model_fileorname,   \* argument of LlmEngine::spawn
    recv_on_server,     \* request channel contents (send_to_server -> recv_on_server)
    recv_on_client,     \* response channel contents (send_to_client -> recv_on_client)
    worker_pc,          \* position of the engine thread
    engine_state,       \* EngineState: model, model_config, default_model_config
    new_context,        \* the context of the request being handled, Option
    new_text,           \* the inference result of the request being handled
    outcome,            \* what the backend did for the request being handled
    backend,            \* the backend call made for the request being handled, Option
    main_pc,            \* position of the main/UI thread
    pending,            \* the request the UI thread is sending, Option
    next_id,            \* id of the next context the UI builds
    accepted,           \* history: requests accepted by the request channel
    sent,               \* history: responses accepted by the response channel
    chat,               \* ChatState: the chat view of the UI thread
    assembled           \* the prompt built for the request being handled, Option

vars == << model_fileorname, recv_on_server, recv_on_client, worker_pc,
           engine_state, new_context, new_text, outcome, backend, main_pc, pending,
           next_id, accepted, sent, chat, assembled >>

workerVars == << worker_pc, engine_state, new_context, new_text, outcome, backend >>
mainVars == << main_pc, pending, next_id >>

\* EngineState before the thread has built it
NoEngineState ==
    [model |-> None, model_config |-> None, default_model_config |-> None]

Init ==
    /\ model_fileorname \in ModelFileOrNames
    /\ recv_on_server = <<>>
    /\ recv_on_client = <<>>
    /\ worker_pc = "start"
    /\ engine_state = NoEngineState
    /\ new_context = None
    /\ new_text = None
    /\ outcome = "none"
    /\ backend = None
    /\ main_pc = "wait_loaded"
    /\ pending = None
    /\ next_id = 1
    /\ accepted = <<>>
    /\ sent = <<>>
    /\ chat = ChatStateNew(Alice, OpenedChatLog)
    /\ assembled = None

\* the process is running: main has not returned
ProcessAlive == main_pc # "exited"

\* the engine thread has ended (return or panic): its channel ends are dropped
WorkerEnded == worker_pc \in {"done", "panicked"}

\* main has returned and its locals (the Application with the LlmEngine's
\* send_to_server and recv_on_client) are dropped; the process has not ended yet
ClientEndsDropped == main_pc = "dropped"


\* ------------------------------------------------------------ engine thread
\* mutant: a request without an override keeps the active configuration
CfgToLoadMutant(es, ctx) ==
    LET ovr == ctx.model_config_override
        active == Unwrap(es.model_config).name
    IN  IF IsSome(ovr) /\ active # Unwrap(ovr) THEN Some(Unwrap(ovr))
        ELSE None

\* the model configuration a request makes the worker load, Option<String>
\* (the match on new_context.model_config_override)
CfgToLoad(es, ctx) ==
    LET ovr == ctx.model_config_override
        active == Unwrap(es.model_config).name
        default == Unwrap(es.default_model_config).name
    IN  IF IsSome(ovr) /\ active # Unwrap(ovr) THEN Some(Unwrap(ovr))
        ELSE IF ovr = None /\ active # default THEN Some(default)
        ELSE None

\* text_infer_kobold panics on these outcomes (.expect on the reqwest send,
\* on the body text and on the JSON deserialization)
KoboldPanics(out) == out \in {"send_failed", "body_unreadable", "bad_json"}

\* mutant: the empty results list is not checked for
TextInferKoboldMutant(out) ==
    IF out = "status_not_ok" THEN None ELSE Some(<<"text">>)

\* text_infer_kobold's return value on the outcomes it returns from
TextInferKobold(out) ==
    IF out \in {"status_not_ok", "empty_results"} THEN None
    ELSE Some(<<"text">>)

\* text_infer's return value: the tokens collected so far, also when
\* session.infer returned Err (the error is only logged)
TextInfer(out) ==
    IF out = "infer_error" THEN Some(<<"partial">>) ELSE Some(<<"text">>)

\* thread start: find the default configuration, load its local model and
\* the embedding model (config.embedding_model is set), build EngineState;
\* a missing configuration and either load failing panic
WorkerStart ==
    /\ ProcessAlive
    /\ worker_pc = "start"
    /\ LET found == FindModelConfiguration(model_fileorname)
       IN  IF found = None
           THEN /\ worker_pc' = "panicked"
                /\ UNCHANGED engine_state
           ELSE LET model_config == Unwrap(found)
                IN  \E load_ok \in BOOLEAN, embedding_ok \in BOOLEAN :
                        IF (IsSome(model_config.path) /\ ~load_ok) \/ ~embedding_ok
                        THEN /\ worker_pc' = "panicked"
                             /\ UNCHANGED engine_state
                        ELSE /\ worker_pc' = "loaded"
                             /\ engine_state' =
                                   [model |-> model_config.path,
                                    model_config |-> Some(model_config),
                                    default_model_config |-> Some(model_config)]
    /\ UNCHANGED << model_fileorname, chat, assembled, recv_on_server, recv_on_client,
                    new_context, new_text, outcome, backend, mainVars, accepted, sent >>

\* mutant: the readiness signal is sent before the configuration is looked up
\* and the model loaded
WorkerSendModelLoadedMutant ==
    /\ ProcessAlive
    /\ worker_pc = "start"
    /\ Len(recv_on_client) < ResponseCapacity
    /\ recv_on_client' = Append(recv_on_client, ModelLoaded)
    /\ sent' = Append(sent, ModelLoaded)
    /\ worker_pc' = "recv"
    /\ UNCHANGED << model_fileorname, chat, assembled, recv_on_server, engine_state,
                    new_context, new_text, outcome, backend, mainVars, accepted >>

\* send_to_client.send(ModelLoaded).expect(..): blocks while the channel is
\* full, panics when the receiver is gone
WorkerSendModelLoaded ==
    /\ ProcessAlive
    /\ worker_pc = "loaded"
    /\ IF ClientEndsDropped
       THEN /\ worker_pc' = "panicked"
            /\ UNCHANGED << recv_on_client, sent >>
       ELSE /\ Len(recv_on_client) < ResponseCapacity
            /\ recv_on_client' = Append(recv_on_client, ModelLoaded)
            /\ sent' = Append(sent, ModelLoaded)
            /\ worker_pc' = "recv"
    /\ UNCHANGED << model_fileorname, chat, assembled, recv_on_server, engine_state,
                    new_context, new_text, outcome, backend, mainVars, accepted >>

\* mutant: a shutdown is honoured only once the request channel is drained
WorkerRecvMutant ==
    /\ ProcessAlive
    /\ worker_pc = "recv"
    /\ recv_on_server # <<>>
    /\ LET request == Head(recv_on_server)
       IN  /\ recv_on_server' = Tail(recv_on_server)
           /\ IF request.type = "ImmediateShutdown"
              THEN /\ worker_pc' = IF Tail(recv_on_server) = <<>> THEN "done" ELSE "recv"
                   /\ UNCHANGED << new_context, new_text, outcome, backend >>
              ELSE /\ worker_pc' = "swap"
                   /\ new_context' = Some(request.context)
                   /\ new_text' = None
                   /\ outcome' = "none"
                   /\ backend' = None
    /\ UNCHANGED << model_fileorname, chat, assembled, recv_on_client, engine_state,
                    mainVars, accepted, sent >>

\* recv_on_server.recv().unwrap_or_else(panic): blocks while the channel is
\* empty; Err, and the panic, once it is empty and every sender is gone
WorkerRecv ==
    /\ ProcessAlive
    /\ worker_pc = "recv"
    /\ IF recv_on_server = <<>>
       THEN /\ ClientEndsDropped
            /\ worker_pc' = "panicked"
            /\ UNCHANGED << recv_on_server, new_context, new_text, outcome, backend >>
       ELSE LET request == Head(recv_on_server)
            IN  /\ recv_on_server' = Tail(recv_on_server)
                /\ IF request.type = "ImmediateShutdown"
                   THEN /\ worker_pc' = "done"
                        /\ UNCHANGED << new_context, new_text, outcome, backend >>
                   ELSE /\ worker_pc' = "swap"
                        /\ new_context' = Some(request.context)
                        /\ new_text' = None
                        /\ outcome' = "none"
                        /\ backend' = None
    /\ UNCHANGED << model_fileorname, chat, assembled, recv_on_client, engine_state,
                    mainVars, accepted, sent >>

\* "need to load up a different model": look the configuration up, drop the
\* loaded model, make the configuration active, load its local model
WorkerSwapModel ==
    /\ ProcessAlive
    /\ worker_pc = "swap"
    /\ LET cfg_to_load == CfgToLoad(engine_state, Unwrap(new_context))
       IN  IF cfg_to_load = None
           THEN /\ worker_pc' = "infer"
                /\ UNCHANGED engine_state
           ELSE LET found == FindModelConfiguration(Unwrap(cfg_to_load))
                IN  IF found = None
                    THEN /\ worker_pc' = "panicked"
                         /\ UNCHANGED engine_state
                    ELSE LET model_config == Unwrap(found)
                         IN  \E load_ok \in BOOLEAN :
                                IF IsSome(model_config.path) /\ ~load_ok
                                THEN /\ worker_pc' = "panicked"
                                     /\ engine_state' =
                                           [engine_state EXCEPT
                                              !.model = None,
                                              !.model_config = Some(model_config)]
                                ELSE /\ worker_pc' = "infer"
                                     /\ engine_state' =
                                           [engine_state EXCEPT
                                              !.model = model_config.path,
                                              !.model_config = Some(model_config)]
    /\ UNCHANGED << model_fileorname, chat, assembled, recv_on_server, recv_on_client,
                    new_context, new_text, outcome, backend, mainVars, accepted, sent >>

\* mutant: the hot-swap keeps the loaded model until the replacement is loaded
WorkerSwapReleaseMutant ==
    /\ ProcessAlive
    /\ worker_pc = "swap"
    /\ LET cfg_to_load == CfgToLoad(engine_state, Unwrap(new_context))
       IN  IF cfg_to_load = None
           THEN /\ worker_pc' = "infer"
                /\ UNCHANGED engine_state
           ELSE LET found == FindModelConfiguration(Unwrap(cfg_to_load))
                IN  IF found = None
                    THEN /\ worker_pc' = "panicked"
                         /\ UNCHANGED engine_state
                    ELSE /\ engine_state' =
                               [engine_state EXCEPT
                                  !.model = IF IsSome(Unwrap(found).path)
                                            THEN engine_state.model ELSE None,
                                  !.model_config = found]
                         /\ worker_pc' = IF IsSome(Unwrap(found).path)
                                         THEN "loading" ELSE "infer"
    /\ UNCHANGED << model_fileorname, chat, assembled, recv_on_server, recv_on_client,
                    new_context, new_text, outcome, backend, mainVars, accepted, sent >>

\* the hot-swap up to the call of llm::load_dynamic: the configuration is
\* looked up, engine_state.model is set to None (the loaded model is dropped)
\* and the configuration made active; a configuration with a local path then
\* has its model loaded
WorkerSwapRelease ==
    /\ ProcessAlive
    /\ worker_pc = "swap"
    /\ LET cfg_to_load == CfgToLoad(engine_state, Unwrap(new_context))
       IN  IF cfg_to_load = None
           THEN /\ worker_pc' = "infer"
                /\ UNCHANGED engine_state
           ELSE LET found == FindModelConfiguration(Unwrap(cfg_to_load))
                IN  IF found = None
                    THEN /\ worker_pc' = "panicked"
                         /\ UNCHANGED engine_state
                    ELSE /\ engine_state' =
                               [engine_state EXCEPT !.model = None,
                                                    !.model_config = found]
                         /\ worker_pc' = IF IsSome(Unwrap(found).path)
                                         THEN "loading" ELSE "infer"
    /\ UNCHANGED << model_fileorname, chat, assembled, recv_on_server, recv_on_client,
                    new_context, new_text, outcome, backend, mainVars, accepted, sent >>

\* llm::load_dynamic returns: the model is stored in engine_state.model, or
\* the Err panics
WorkerSwapLoad ==
    /\ ProcessAlive
    /\ worker_pc = "loading"
    /\ \E load_ok \in BOOLEAN :
          IF load_ok
          THEN /\ worker_pc' = "infer"
               /\ engine_state' =
                     [engine_state EXCEPT
                        !.model = Unwrap(engine_state.model_config).path]
          ELSE /\ worker_pc' = "panicked"
               /\ UNCHANGED engine_state
    /\ UNCHANGED << model_fileorname, chat, assembled, recv_on_server, recv_on_client,
                    new_context, new_text, outcome, backend, mainVars, accepted, sent >>

\* the call a backend function makes: session.infer in text_infer, the POST
\* to the KoboldAPI host in text_infer_kobold
BackendCall(function) == [function |-> function]

\* the dispatch on model_config.path and the backend call, with the backend
\* doing `out`
WorkerInferWith(out) ==
    /\ ProcessAlive
    /\ worker_pc = "infer"
    /\ outcome' = out
    /\ IF IsSome(Unwrap(engine_state.model_config).path)
       THEN /\ out \in LocalOutcomes
            /\ IF engine_state.model = None
               THEN /\ worker_pc' = "panicked"
                    /\ UNCHANGED << new_text, backend >>
               ELSE /\ worker_pc' = "send"
                    /\ new_text' = TextInfer(out)
                    /\ backend' = Some(BackendCall("text_infer"))
       ELSE /\ out \in RemoteOutcomes
            /\ backend' = Some(BackendCall("text_infer_kobold"))
            /\ IF KoboldPanics(out)
               THEN /\ worker_pc' = "panicked"
                    /\ UNCHANGED new_text
               ELSE /\ worker_pc' = "send"
                    /\ new_text' = TextInferKobold(out)
    /\ UNCHANGED << model_fileorname, chat, assembled, recv_on_server, recv_on_client,
                    engine_state, new_context, mainVars, accepted, sent >>

WorkerInfer == \E out \in LocalOutcomes \cup RemoteOutcomes : WorkerInferWith(out)

\* mutant: a failed inference (None) is not reported to the client
WorkerSendMutant ==
    /\ ProcessAlive
    /\ worker_pc = "send"
    /\ IF new_text = None
       THEN UNCHANGED << recv_on_client, sent >>
       ELSE /\ Len(recv_on_client) < ResponseCapacity
            /\ LET result == NewText(new_text, Unwrap(new_context))
               IN  /\ recv_on_client' = Append(recv_on_client, result)
                   /\ sent' = Append(sent, result)
    /\ worker_pc' = "recv"
    /\ UNCHANGED << model_fileorname, chat, assembled, recv_on_server, engine_state,
                    new_context, new_text, outcome, backend, mainVars, accepted >>

\* mutant: the response send is unwrapped like the ModelLoaded send
WorkerSendExpectMutant ==
    /\ ProcessAlive
    /\ worker_pc = "send"
    /\ IF ClientEndsDropped
       THEN /\ worker_pc' = "panicked"
            /\ UNCHANGED << recv_on_client, sent >>
       ELSE /\ Len(recv_on_client) < ResponseCapacity
            /\ LET result == NewText(new_text, Unwrap(new_context))
               IN  /\ recv_on_client' = Append(recv_on_client, result)
                   /\ sent' = Append(sent, result)
            /\ worker_pc' = "recv"
    /\ UNCHANGED << model_fileorname, chat, assembled, recv_on_server, engine_state,
                    new_context, new_text, outcome, backend, mainVars, accepted >>

\* send_to_client.send(NewText(new_text, new_context)): blocks while the
\* channel is full; when the receiver is gone the Err is logged and the loop
\* goes on to the next recv
WorkerSend ==
    /\ ProcessAlive
    /\ worker_pc = "send"
    /\ IF ClientEndsDropped
       THEN UNCHANGED << recv_on_client, sent >>
       ELSE /\ Len(recv_on_client) < ResponseCapacity
            /\ LET result == NewText(new_text, Unwrap(new_context))
               IN  /\ recv_on_client' = Append(recv_on_client, result)
                   /\ sent' = Append(sent, result)
    /\ worker_pc' = "recv"
    /\ UNCHANGED << model_fileorname, chat, assembled, recv_on_server, engine_state,
                    new_context, new_text, outcome, backend, mainVars, accepted >>

\* ---------------------------------------------------------- prompt assembly
\* the template placeholders
CHARACTER_DESCRIPTION == "<|character_description|>"
CURRENT_CONTEXT == "<|current_context|>"
USER_DESCRIPTION == "<|user_description|>"
SIMILAR_SENTENCES == "<|similar_sentences|>"
CHARACTER_NAME == "<|character_name|>"
USER_NAME == "<|user_name|>"
CHAT_HISTORY == "<|chat_history|>"

\* an f32 with a short decimal expansion, as a fraction
F32(n, d) == [num |-> n, den |-> d]

\* usize: UsizeBits wide; a - b wraps when it overflows, and a build with
\* overflow checks panics there instead
UsizeMax == 2^UsizeBits - 1

UsizeSub(a, b) == [value |-> (a - b) % (UsizeMax + 1), overflowed |-> a < b]

\* (n as f32 * ratio) as usize: the cast truncates and saturates
MulF32AsUsize(n, ratio) ==
    LET product == (n * ratio.num) \div ratio.den
    IN  IF product < 0 THEN 0
        ELSE IF product > UsizeMax THEN UsizeMax
        ELSE product

\* generate_vector_embedding: the tensor, modelled by the text it encodes
GenerateVectorEmbedding(pretext, text) == [text |-> pretext \o text]

\* vector_embedding_cosine_similarity, in percent: the embedding model is
\* not part of the program; the score here is the overlap of the two texts
VectorEmbeddingCosineSimilarity(first, second) ==
    LET a == {first.text[i] : i \in 1..Len(first.text)}
        b == {second.text[i] : i \in 1..Len(second.text)}
    IN  IF a \cup b = {} THEN 0
        ELSE (100 * Cardinality(a \cap b)) \div Cardinality(a \cup b)

\* the chunking loop of build_all_vector_embeddings over whole_text.lines()
RECURSIVE ChunkLines(_, _, _)
ChunkLines(lines, buffer, limit) ==
    IF lines = <<>> THEN <<buffer>>
    ELSE IF StrLen(buffer) + StrLen(Head(lines)) < limit
    THEN ChunkLines(Tail(lines), buffer \o Head(lines), limit)
    ELSE <<IF buffer = <<>> THEN Head(lines) ELSE buffer>>
             \o ChunkLines(Tail(lines), <<>>, limit)

\* mutant: build_all_vector_embeddings stores the chunks it embedded as the
\* turn's lines
BuildAllVectorEmbeddingsMutant(engine, items, force_recalculation) ==
    LET limit == MulF32AsUsize(engine.token_cutoff_limit,
                               F32(DEFAULT_TEXT_TO_TOKEN_RATIO, 1))
        Build(item) ==
            IF item.embeddings # <<>> /\ ~force_recalculation THEN item
            ELSE LET chunked_line ==
                         ChunkLines(Lines(GetNameAndItemsAsString(item)), <<>>, limit)
                 IN  [item EXCEPT !.lines = chunked_line,
                                  !.embeddings =
                        [j \in 1..Len(chunked_line) |->
                            GenerateVectorEmbedding(engine.encode_pretext,
                                                    chunked_line[j])]]
    IN  [i \in 1..Len(items) |-> Build(items[i])]

\* VectorEmbeddingEngine::build_all_vector_embeddings, with
\* generate_vector_embedding returning Ok
BuildAllVectorEmbeddings(engine, items, force_recalculation) ==
    LET limit == MulF32AsUsize(engine.token_cutoff_limit,
                               F32(DEFAULT_TEXT_TO_TOKEN_RATIO, 1))
        Build(item) ==
            IF item.embeddings # <<>> /\ ~force_recalculation THEN item
            ELSE LET chunked_line ==
                         ChunkLines(Lines(GetNameAndItemsAsString(item)), <<>>, limit)
                 IN  [item EXCEPT !.embeddings =
                        [j \in 1..Len(chunked_line) |->
                            GenerateVectorEmbedding(engine.encode_pretext,
                                                    chunked_line[j])]]
    IN  [i \in 1..Len(items) |-> Build(items[i])]

\* mutant: the sort puts an entry in front of the entries of equal score
RECURSIVE SortByScoreDescendingMutant(_)
SortByScoreDescendingMutant(s) ==
    IF s = <<>> THEN <<>>
    ELSE LET sorted == SortByScoreDescendingMutant(SubSeq(s, 1, Len(s) - 1))
             x == s[Len(s)]
             k == Cardinality({i \in 1..Len(sorted) : sorted[i].score > x.score})
         IN  SubSeq(sorted, 1, k) \o <<x>> \o SubSeq(sorted, k + 1, Len(sorted))

\* slice::sort_by(|u, v| v.0.total_cmp(&u.0)): stable, highest score first
RECURSIVE SortByScoreDescending(_)
SortByScoreDescending(s) ==
    IF s = <<>> THEN <<>>
    ELSE LET sorted == SortByScoreDescending(SubSeq(s, 1, Len(s) - 1))
             x == s[Len(s)]
             k == Cardinality({i \in 1..Len(sorted) : sorted[i].score >= x.score})
         IN  SubSeq(sorted, 1, k) \o <<x>> \o SubSeq(sorted, k + 1, Len(sorted))

\* VectorEmbeddingEngine::get_sentence_similarity_for_last on a non-empty
\* chat log, with generate_vector_embedding returning Ok: None when the
\* index of the query item underflows (a panic there with overflow checks,
\* and in the unwrap of chatlog.get(..) without), else the matches
GetSentenceSimilarityForLast(engine, items, extra_offset, number_requested) ==
    IF Len(items) - 1 - extra_offset < 0 THEN None
    ELSE LET last_item == items[Len(items) - extra_offset]
             test_embedding ==
                 GenerateVectorEmbedding(engine.query_pretext,
                                         GetNameAndItemsAsString(last_item))
             Scores(i) ==
                 [j \in 1..Len(items[i].embeddings) |->
                     [score |-> VectorEmbeddingCosineSimilarity(
                                    test_embedding, items[i].embeddings[j]),
                      index |-> i]]
             similarities ==
                 LET RECURSIVE Collect(_)
                     Collect(i) ==
                         IF i > Len(items) - 1 THEN <<>>
                         ELSE Scores(i) \o Collect(i + 1)
                 IN  SortByScoreDescending(Collect(1))
             num_to_get ==
                 IF number_requested > Len(similarities)
                 THEN Len(similarities) ELSE number_requested
         IN  Some([k \in 1..num_to_get |->
                      [index |-> similarities[k].index,
                       score |-> similarities[k].score,
                       text |-> GetNameAndItemsAsString(
                                    items[similarities[k].index])]])

\* mutant: the walk appends each older turn to the history
RECURSIVE HistoryWalkMutant(_, _, _, _, _)
HistoryWalkMutant(context, i, history_log, continue_line, prompt_limit) ==
    IF i = 0
    THEN [history_log |-> history_log, continue_line |-> continue_line,
          panicked |-> FALSE]
    ELSE LET turn_str == GetNameAndItemsAsString(context.chatlog.items[i])
             name == context.character.name
         IN  IF context.should_continue /\ continue_line = <<>>
             THEN IF StartsWith(turn_str, name)
                  THEN LET rest == SliceFrom(turn_str, StrLen(name) + 1)
                       IN  IF rest = None
                           THEN [history_log |-> history_log,
                                 continue_line |-> continue_line,
                                 panicked |-> TRUE]
                           ELSE HistoryWalkMutant(context, i - 1, history_log,
                                                  Unwrap(rest), prompt_limit)
                  ELSE HistoryWalkMutant(context, i - 1, history_log, turn_str,
                                         prompt_limit)
             ELSE LET new_history == history_log \o turn_str \o <<"\n">>
                  IN  IF StrLen(new_history) + StrLen(continue_line) >= prompt_limit
                      THEN [history_log |-> history_log,
                            continue_line |-> continue_line,
                            panicked |-> FALSE]
                      ELSE HistoryWalkMutant(context, i - 1, new_history,
                                             continue_line, prompt_limit)

\* the reverse walk over the chat log (the for loop of
\* create_prompt_for_chat_input), from item i down to the oldest; panicked
\* when the slice that removes the name is out of range
RECURSIVE HistoryWalk(_, _, _, _, _)
HistoryWalk(context, i, history_log, continue_line, prompt_limit) ==
    IF i = 0
    THEN [history_log |-> history_log, continue_line |-> continue_line,
          panicked |-> FALSE]
    ELSE LET turn_str == GetNameAndItemsAsString(context.chatlog.items[i])
             name == context.character.name
         IN  IF context.should_continue /\ continue_line = <<>>
             THEN IF StartsWith(turn_str, name)
                  THEN LET rest == SliceFrom(turn_str, StrLen(name) + 1)
                       IN  IF rest = None
                           THEN [history_log |-> history_log,
                                 continue_line |-> continue_line,
                                 panicked |-> TRUE]
                           ELSE HistoryWalk(context, i - 1, history_log,
                                            Unwrap(rest), prompt_limit)
                  ELSE HistoryWalk(context, i - 1, history_log, turn_str,
                                   prompt_limit)
             ELSE LET new_history == turn_str \o <<"\n">> \o history_log
                  IN  IF StrLen(new_history) + StrLen(continue_line) >= prompt_limit
                      THEN [history_log |-> history_log,
                            continue_line |-> continue_line,
                            panicked |-> FALSE]
                      ELSE HistoryWalk(context, i - 1, new_history, continue_line,
                                       prompt_limit)

\* what create_prompt_for_chat_input leaves behind when it panics
PromptPanicked(context) ==
    [panicked |-> TRUE, context |-> context, overflowed |-> FALSE,
     embedded |-> FALSE]

\* mutant: continue_line is put in front of the prompt
PromptWithHistoryMutant(context, buf, prompt_limit, walk, overflowed, embedded) ==
    IF walk.panicked THEN PromptPanicked(context)
    ELSE [panicked |-> FALSE,
          context |-> context,
          overflowed |-> overflowed,
          embedded |-> embedded,
          prompt |-> walk.continue_line
                         \o Replace(buf, CHAT_HISTORY, TrimEnd(walk.history_log)),
          filled |-> buf,
          prompt_limit |-> prompt_limit,
          history_log |-> walk.history_log,
          continue_line |-> walk.continue_line]

\* create_prompt_for_chat_input from the budget on: prompt_limit, the walk,
\* the substitution of the history and the appended continue_line; buf is
\* the template with every other placeholder replaced
PromptWithHistory(context, buf, prompt_limit, walk, overflowed, embedded) ==
    IF walk.panicked THEN PromptPanicked(context)
    ELSE [panicked |-> FALSE,
          context |-> context,
          overflowed |-> overflowed,
          embedded |-> embedded,
          prompt |-> Replace(buf, CHAT_HISTORY, TrimEnd(walk.history_log))
                         \o walk.continue_line,
          filled |-> buf,
          prompt_limit |-> prompt_limit,
          history_log |-> walk.history_log,
          continue_line |-> walk.continue_line]

PromptWithinLimit(context, buf, prompt_limit, overflowed, embedded) ==
    PromptWithHistory(
        context, buf, prompt_limit.value,
        HistoryWalk(context, Len(context.chatlog.items), <<>>, <<>>,
                    prompt_limit.value),
        overflowed \/ prompt_limit.overflowed, embedded)

PromptBudgeted(es, context, buf, tokens_left, embedded) ==
    PromptWithinLimit(
        context, buf,
        UsizeSub(MulF32AsUsize(
                     tokens_left.value,
                     IF IsSome(es.config.text_to_token_ratio_prediction)
                     THEN Unwrap(es.config.text_to_token_ratio_prediction)
                     ELSE F32(DEFAULT_TEXT_TO_TOKEN_RATIO, 1)),
                 StrLen(buf)),
        tokens_left.overflowed, embedded)

\* create_prompt_for_chat_input from the similar sentences on: matches is
\* what the similarity search returned (None when it panicked), items the
\* chat log's items with the embeddings that were built; the matches are
\* kept with the values computed on the way
PromptWithMatches(es, context, buf, wants_similar, items, matches) ==
    IF matches = None
    THEN PromptPanicked([context EXCEPT !.chatlog.items = items])
    ELSE [matches |-> Unwrap(matches)] @@ PromptBudgeted(
             es,
             [context EXCEPT !.chatlog.items = items],
             Replace(
                 Replace(
                     IF wants_similar
                     THEN Replace(buf, SIMILAR_SENTENCES,
                                  Join([k \in 1..Len(Unwrap(matches)) |->
                                           Unwrap(matches)[k].text], <<"\n">>))
                     ELSE buf,
                     CHARACTER_NAME, context.character.name),
                 USER_NAME, es.config.display_name),
             UsizeSub(Unwrap(es.model_config).context_size,
                      IF IsSome(es.config.maximum_new_tokens)
                      THEN Unwrap(es.config.maximum_new_tokens)
                      ELSE DEFAULT_MAX_NEW_TOKENS),
             wants_similar /\ IsSome(es.embedding_engine))

PromptWithEmbeddings(es, context, buf, wants_similar, items) ==
    PromptWithMatches(
        es, context, buf, wants_similar, items,
        IF wants_similar /\ IsSome(es.embedding_engine)
        THEN GetSentenceSimilarityForLast(
                 Unwrap(es.embedding_engine), items,
                 IF context.should_continue THEN 1 ELSE 0,
                 IF IsSome(Unwrap(es.model_config).similar_sentence_count)
                 THEN Unwrap(Unwrap(es.model_config).similar_sentence_count)
                 ELSE DEFAULT_NUM_OF_SENTENCE_MATCHES)
        ELSE Some(<<>>))

PromptFromDescriptions(es, context, buf) ==
    PromptWithEmbeddings(
        es, context, buf,
        Contains(buf, SIMILAR_SENTENCES) /\ Len(context.chatlog.items) > 0,
        IF /\ Contains(buf, SIMILAR_SENTENCES)
           /\ Len(context.chatlog.items) > 0
           /\ IsSome(es.embedding_engine)
        THEN BuildAllVectorEmbeddings(Unwrap(es.embedding_engine),
                                      context.chatlog.items, FALSE)
        ELSE context.chatlog.items)

\* EngineState::create_prompt_for_chat_input as a build without overflow
\* checks runs it when every generate_vector_embedding returns Ok: the
\* prompt, the context it leaves behind (embeddings are built in place) and
\* the values it computed on the way; panicked when it does not return,
\* overflowed when a subtraction wrapped, embedded when it called
\* generate_vector_embedding
CreatePromptForChatInput(es, context) ==
    LET buf1 == Replace(Unwrap(es.model_config).prompt_instruct_template,
                        CHARACTER_DESCRIPTION, context.character.description)
        buf2 == Replace(buf1, CURRENT_CONTEXT, context.chatlog.current_context)
    IN  PromptFromDescriptions(
            es, context,
            IF IsSome(context.chatlog.user_description)
            THEN Replace(buf2, USER_DESCRIPTION,
                         Unwrap(context.chatlog.user_description))
            ELSE buf2)

\* ------------------------------------------------------------- backend calls
\* ConfiguredParameters: a sampling profile of the configuration file
ConfiguredParameters(name, top_k, top_p, min_p, rep, range, temp, mirostat, eta, tau) ==
    [name |-> name, top_k |-> top_k, top_p |-> top_p, min_p |-> min_p,
     repeat_penalty |-> rep, repeat_penalty_range |-> range,
     temperature |-> temp, mirostat |-> mirostat,
     mirostat_eta |-> eta, mirostat_tau |-> tau]

\* the sampling profile the chat view starts with
DefaultParameters ==
    ConfiguredParameters("default", Some(40), Some(F32(9, 10)), Some(F32(1, 20)),
                         Some(F32(11, 10)), Some(64), Some(F32(7, 10)),
                         None, None, None)

\* one option of the sampler string, "sampler:arg=value:arg=value"
SamplerOption(sampler, args) == [sampler |-> sampler, args |-> args]

\* an optional "arg=value"
OptionalArg(arg, value) ==
    IF IsSome(value) THEN << <<arg, Unwrap(value)>> >> ELSE <<>>

\* mutant: the classical samplers are configured whatever mirostat is
SamplerStringMutant(parameters) ==
    (IF IsSome(parameters.repeat_penalty)
     THEN <<SamplerOption("repetition",
                          << <<"penalty", Unwrap(parameters.repeat_penalty)>> >>
                              \o OptionalArg("last_n",
                                             parameters.repeat_penalty_range))>>
     ELSE <<>>)
    \o (IF IsSome(parameters.mirostat)
              /\ Unwrap(parameters.mirostat) \in {1, 2}
        THEN <<SamplerOption(
                   IF Unwrap(parameters.mirostat) = 1
                   THEN "mirostat1" ELSE "mirostat2",
                   OptionalArg("eta", parameters.mirostat_eta)
                       \o OptionalArg("tau", parameters.mirostat_tau))>>
        ELSE <<>>)
    \o (IF IsSome(parameters.top_k)
        THEN <<SamplerOption("top_k", << <<"k", Unwrap(parameters.top_k)>>,
                                         <<"min_keep", 1>> >>)>>
        ELSE <<>>)
    \o (IF IsSome(parameters.top_p)
        THEN <<SamplerOption("top_p", << <<"p", Unwrap(parameters.top_p)>>,
                                         <<"min_keep", 1>> >>)>>
        ELSE <<>>)
    \o (IF IsSome(parameters.min_p)
        THEN <<SamplerOption("min_p", << <<"p", Unwrap(parameters.min_p)>>,
                                         <<"min_keep", 1>> >>)>>
        ELSE <<>>)
    \o (IF IsSome(parameters.temperature)
        THEN <<SamplerOption("temperature",
                             << <<"temperature",
                                  Unwrap(parameters.temperature)>> >>)>>
        ELSE <<>>)

\* the sampler string text_infer builds (buffer), as the options it holds in
\* the order they are pushed
SamplerString(parameters) ==
    (IF IsSome(parameters.repeat_penalty)
     THEN <<SamplerOption("repetition",
                          << <<"penalty", Unwrap(parameters.repeat_penalty)>> >>
                              \o OptionalArg("last_n",
                                             parameters.repeat_penalty_range))>>
     ELSE <<>>)
    \o (IF IsSome(parameters.mirostat)
        THEN IF Unwrap(parameters.mirostat) \in {1, 2}
             THEN <<SamplerOption(
                        IF Unwrap(parameters.mirostat) = 1
                        THEN "mirostat1" ELSE "mirostat2",
                        OptionalArg("eta", parameters.mirostat_eta)
                            \o OptionalArg("tau", parameters.mirostat_tau))>>
             ELSE <<>>
        ELSE (IF IsSome(parameters.top_k)
              THEN <<SamplerOption("top_k",
                                   << <<"k", Unwrap(parameters.top_k)>>,
                                      <<"min_keep", 1>> >>)>>
              ELSE <<>>)
             \o (IF IsSome(parameters.top_p)
                 THEN <<SamplerOption("top_p",
                                      << <<"p", Unwrap(parameters.top_p)>>,
                                         <<"min_keep", 1>> >>)>>
                 ELSE <<>>)
             \o (IF IsSome(parameters.min_p)
                 THEN <<SamplerOption("min_p",
                                      << <<"p", Unwrap(parameters.min_p)>>,
                                         <<"min_keep", 1>> >>)>>
                 ELSE <<>>)
             \o (IF IsSome(parameters.temperature)
                 THEN <<SamplerOption("temperature",
                                      << <<"temperature",
                                           Unwrap(parameters.temperature)>> >>)>>
                 ELSE <<>>))

\* what text_infer hands to session.infer, the prompt, the sampler string the
\* chain is built from and maximum_token_count, and the tokens its callback
\* collects in inferred_string
TextInferCall(es, context, prompt, inferred_string) ==
    [function |-> "text_infer",
     inferred_string |-> inferred_string,
     prompt |-> prompt,
     samplers |-> SamplerString(context.parameters),
     maximum_token_count |->
         IF IsSome(es.config.maximum_new_tokens)
         THEN Unwrap(es.config.maximum_new_tokens)
         ELSE DEFAULT_MAX_NEW_TOKENS]

\* format!("{}: ", name)
StopSequence(name) == name \o <<":", " ">>

\* stop_seqs of text_infer_kobold
StopSeqs(es, context) ==
    <<StopSequence(es.config.display_name), StopSequence(context.character.name)>>
        \o [i \in 1..Len(context.other_participants) |->
               StopSequence(context.other_participants[i][1].name)]

\* TextgenRemoteRequestKobold as text_infer_kobold fills it in; a field that
\* is None is left out of the JSON body
TextgenRemoteRequestKobold(es, context, prompt) ==
    [prompt |-> prompt,
     max_context_length |-> Some(Unwrap(es.model_config).context_size),
     max_length |-> es.config.maximum_new_tokens,
     temperature |-> context.parameters.temperature,
     top_k |-> context.parameters.top_k,
     top_p |-> context.parameters.top_p,
     min_p |-> context.parameters.min_p,
     rep_pen |-> context.parameters.repeat_penalty,
     rep_pen_range |-> context.parameters.repeat_penalty_range,
     typical |-> None,
     sampler_seed |-> None,
     mirostat |-> context.parameters.mirostat,
     mirostat_eta |-> context.parameters.mirostat_eta,
     mirostat_tau |-> context.parameters.mirostat_tau,
     trim_stop |-> Some(TRUE),
     stop_sequence |-> IF es.config.stop_on_display_name
                       THEN Some(StopSeqs(es, context)) ELSE None]

\* what text_infer_kobold posts, to remote_server or to localhost when the
\* model configuration has none, and the text of the first result it gets
\* (none with a status other than 200 and with an empty result list)
TextInferKoboldCall(es, context, prompt, inferred_string) ==
    [function |-> "text_infer_kobold",
     inferred_string |-> inferred_string,
     textgen_url |->
         (IF IsSome(Unwrap(es.model_config).remote_server)
          THEN Unwrap(Unwrap(es.model_config).remote_server)
          ELSE "http://localhost:5001") \o "/api/v1/generate",
     textgen_request |-> TextgenRemoteRequestKobold(es, context, prompt)]

\* char::to_ascii_lowercase for a one-character unit
UnitToAsciiLowercase(u) ==
    LET upper ==
            <<"A", "B", "C", "D", "E", "F", "G", "H", "I", "J", "K", "L", "M",
              "N", "O", "P", "Q", "R", "S", "T", "U", "V", "W", "X", "Y", "Z">>
        lower ==
            <<"a", "b", "c", "d", "e", "f", "g", "h", "i", "j", "k", "l", "m",
              "n", "o", "p", "q", "r", "s", "t", "u", "v", "w", "x", "y", "z">>
    IN  IF \E i \in 1..Len(upper) : upper[i] = u
        THEN lower[CHOOSE i \in 1..Len(upper) : upper[i] = u]
        ELSE u

\* str::eq_ignore_ascii_case for names of one-character units
NameEqIgnoreAsciiCase(a, b) ==
    /\ Len(a) = Len(b)
    /\ \A i \in 1..Len(a) : UnitToAsciiLowercase(a[i]) = UnitToAsciiLowercase(b[i])

\* str::find: the offset of the first occurrence of pattern, Option<usize>
Find(s, pattern) ==
    LET hits == {i \in 0..(Len(s) - Len(pattern)) :
                    SubSeq(s, i + 1, i + Len(pattern)) = pattern}
    IN  IF hits = {} THEN None
        ELSE Some(CHOOSE i \in hits : \A j \in hits : i <= j)

\* the names split_inference_at_display_names looks for, in its order: the
\* user, the speaking character, the chat log's owner when the character's
\* name differs from it ignoring case, the other participants
StopNames(es, context) ==
    <<es.config.display_name, context.character.name>>
        \o (IF ~NameEqIgnoreAsciiCase(context.character.name,
                                      context.chatlog_owner.name)
            THEN <<context.chatlog_owner.name>> ELSE <<>>)
        \o [i \in 1..Len(context.other_participants) |->
               context.other_participants[i][1].name]

\* mutant: the last name found decides where the text is cut
RECURSIVE EarliestMutant(_, _, _)
EarliestMutant(inferred_string, names, earliest) ==
    IF names = <<>> THEN earliest
    ELSE LET found == Find(inferred_string, Head(names) \o <<":">>)
         IN  EarliestMutant(inferred_string, Tail(names),
                            IF IsSome(found) THEN found ELSE earliest)

\* the checks of split_inference_at_display_names, one name after the other:
\* a match before the earliest so far (the length of the text when there is
\* none) becomes the earliest
RECURSIVE Earliest(_, _, _)
Earliest(inferred_string, names, earliest) ==
    IF names = <<>> THEN earliest
    ELSE LET found == Find(inferred_string, Head(names) \o <<":">>)
             prev_earliest == IF IsSome(earliest) THEN Unwrap(earliest)
                              ELSE Len(inferred_string)
         IN  Earliest(inferred_string, Tail(names),
                      IF IsSome(found) /\ Unwrap(found) < prev_earliest
                      THEN found ELSE earliest)

\* EngineState::split_inference_at_display_names: the text it leaves in
\* inferred_string
SplitInferenceAtDisplayNames(es, context, inferred_string) ==
    LET earliest == Earliest(inferred_string, StopNames(es, context), None)
    IN  IF IsSome(earliest)
        THEN SubSeq(inferred_string, 1, Unwrap(earliest))
        ELSE inferred_string

\* the end of text_infer and of text_infer_kobold: the text is split when
\* stop_on_display_name is set
StopOnDisplayName(es, context, inferred_string) ==
    IF es.config.stop_on_display_name
    THEN SplitInferenceAtDisplayNames(es, context, inferred_string)
    ELSE inferred_string

\* text_infer and text_infer_kobold with the prompt they build first: the
\* dispatch on model_config.path, create_prompt_for_chat_input on the
\* request's context and the backend call, with the backend doing one of
\* `outcomes`. The prompt is not returned, and the thread panics, when a
\* subtraction overflows in a build with overflow checks, and when the
\* embedding model fails (the query embedding is unwrapped); without
\* overflow checks and with a working embedding model it is returned. The
\* backend generates one of `raws`
WorkerInferCall(outcomes, raws) ==
    /\ ProcessAlive
    /\ worker_pc = "infer"
    /\ \E built \in {CreatePromptForChatInput(engine_state, Unwrap(new_context))} :
       LET local == IsSome(Unwrap(engine_state.model_config).path)
       IN  IF local /\ engine_state.model = None
           THEN /\ worker_pc' = "panicked"
                /\ UNCHANGED << new_context, new_text, outcome, backend, assembled >>
           ELSE \/ /\ built.panicked \/ built.overflowed \/ built.embedded
                   /\ worker_pc' = "panicked"
                   /\ UNCHANGED << new_context, new_text, outcome, backend, assembled >>
                \/ /\ ~built.panicked
                   /\ new_context' = Some(built.context)
                   /\ assembled' = Some([prompt |-> built.prompt,
                                         filled |-> built.filled,
                                         prompt_limit |-> built.prompt_limit,
                                         history_log |-> built.history_log,
                                         continue_line |-> built.continue_line,
                                         matches |-> built.matches])
                   /\ \E out \in outcomes, raw \in raws :
                         /\ backend' =
                               Some(IF local
                                    THEN TextInferCall(engine_state, built.context,
                                                       built.prompt, raw)
                                    ELSE TextInferKoboldCall(
                                             engine_state, built.context,
                                             built.prompt,
                                             IF TextInferKobold(out) = None
                                             THEN <<>> ELSE raw))
                         /\ out \in (IF local THEN LocalOutcomes ELSE RemoteOutcomes)
                         /\ outcome' = out
                         /\ IF ~local /\ KoboldPanics(out)
                            THEN /\ worker_pc' = "panicked"
                                 /\ UNCHANGED new_text
                            ELSE /\ worker_pc' = "send"
                                 /\ new_text' =
                                       IF (IF local THEN TextInfer(out)
                                           ELSE TextInferKobold(out)) = None
                                       THEN None
                                       ELSE Some(StopOnDisplayName(
                                                     engine_state, built.context,
                                                     raw))
    /\ UNCHANGED << model_fileorname, chat, recv_on_server, recv_on_client,
                    engine_state, mainVars, accepted, sent >>

\* the backend generates the text "text"
WorkerInferPrompt(outcomes) == WorkerInferCall(outcomes, {<<"text">>})

\* ----------------------------------------------------------- main/UI thread
\* main waits for the engine's first response
MainRecvModelLoaded ==
    /\ main_pc = "wait_loaded"
    /\ IF recv_on_client # <<>>
       THEN /\ recv_on_client' = Tail(recv_on_client)
            /\ main_pc' = "ui"
       ELSE /\ WorkerEnded
            /\ main_pc' = "exited"
            /\ UNCHANGED recv_on_client
    /\ UNCHANGED << model_fileorname, chat, assembled, recv_on_server, workerVars, pending,
                    next_id, accepted, sent >>

\* the chat view builds a TextInferenceContext and calls send_to_server.send
UiBeginSend(ovr, max) ==
    /\ main_pc = "ui"
    /\ next_id <= max
    /\ pending' = Some(TextInference(TextInferenceContext(next_id, ovr)))
    /\ next_id' = next_id + 1
    /\ main_pc' = "sending"
    /\ UNCHANGED << model_fileorname, chat, assembled, recv_on_server, recv_on_client,
                    workerVars, accepted, sent >>

UiSubmit == \E ovr \in Overrides : UiBeginSend(ovr, MaxRequests)

\* mutant: the request channel is unbounded
UiSendCompleteMutant ==
    /\ main_pc = "sending"
    /\ IF WorkerEnded
       THEN UNCHANGED << recv_on_server, accepted >>
       ELSE /\ recv_on_server' = Append(recv_on_server, Unwrap(pending))
            /\ accepted' = Append(accepted, Unwrap(pending))
    /\ pending' = None
    /\ main_pc' = "ui"
    /\ UNCHANGED << model_fileorname, chat, assembled, recv_on_client, workerVars, next_id, sent >>

\* send_to_server.send returns: Err when the engine thread has ended, else
\* after the message is in the channel (it blocks while the channel is full)
UiSendComplete ==
    /\ main_pc = "sending"
    /\ IF WorkerEnded
       THEN UNCHANGED << recv_on_server, accepted >>
       ELSE /\ Len(recv_on_server) < RequestCapacity
            /\ recv_on_server' = Append(recv_on_server, Unwrap(pending))
            /\ accepted' = Append(accepted, Unwrap(pending))
    /\ pending' = None
    /\ main_pc' = "ui"
    /\ UNCHANGED << model_fileorname, chat, assembled, recv_on_client, workerVars, next_id, sent >>

\* one iteration of process_incoming_llm_engine_messages
UiPoll ==
    /\ main_pc = "ui"
    /\ recv_on_client # <<>>
    /\ recv_on_client' = Tail(recv_on_client)
    /\ UNCHANGED << model_fileorname, chat, assembled, recv_on_server, workerVars, main_pc,
                    pending, next_id, accepted, sent >>

\* Application::run returns
UiQuit ==
    /\ main_pc = "ui"
    /\ main_pc' = "shutdown"
    /\ UNCHANGED << model_fileorname, chat, assembled, recv_on_server, recv_on_client,
                    workerVars, pending, next_id, accepted, sent >>

\* try_send(ImmediateShutdown): fails when the channel is full or the engine
\* thread has ended, and then main does not join
MainTrySendShutdown ==
    /\ main_pc = "shutdown"
    /\ IF ~WorkerEnded /\ Len(recv_on_server) < RequestCapacity
       THEN /\ recv_on_server' = Append(recv_on_server, ImmediateShutdown)
            /\ accepted' = Append(accepted, ImmediateShutdown)
            /\ main_pc' = "join"
       ELSE /\ main_pc' = "no_join"
            /\ UNCHANGED << recv_on_server, accepted >>
    /\ UNCHANGED << model_fileorname, chat, assembled, recv_on_client, workerVars, pending,
                    next_id, sent >>

\* app.engine.handle.join() returns once the engine thread has ended
MainJoin ==
    /\ main_pc = "join"
    /\ WorkerEnded
    /\ main_pc' = "joined"
    /\ UNCHANGED << model_fileorname, chat, assembled, recv_on_server, recv_on_client,
                    workerVars, pending, next_id, accepted, sent >>

\* main's locals are dropped when it returns: the channel ends the
\* Application holds go first, the process ends after that
MainDropEnds ==
    /\ main_pc \in {"joined", "no_join"}
    /\ main_pc' = "dropped"
    /\ UNCHANGED << model_fileorname, chat, assembled, recv_on_server, recv_on_client,
                    workerVars, pending, next_id, accepted, sent >>

\* main returns: the process ends, and with it the engine thread
MainExit ==
    /\ main_pc \in {"joined", "no_join", "dropped"}
    /\ main_pc' = "exited"
    /\ UNCHANGED << model_fileorname, chat, assembled, recv_on_server, recv_on_client,
                    workerVars, pending, next_id, accepted, sent >>

\* ---------------------------------------------------------------- chat view
\* ChatState::show_progress_bar and ChatState::hide_progress_bar
ShowProgressBar(cs, char_to_wait_on) ==
    [cs EXCEPT !.waiting_for_character = Some(char_to_wait_on),
               !.waiting_for_operation = TRUE]

HideProgressBar(cs) ==
    [cs EXCEPT !.waiting_for_operation = FALSE,
               !.progress_widget = None,
               !.waiting_for_character = None]

\* one Ok(response) of the loop of process_incoming_llm_engine_messages
ProcessResponse(cs, response) ==
    IF response.type = "NewText" /\ IsSome(response.text)
    THEN LET context == response.context
             resp == Unwrap(response.text)
             items == context.chatlog.items
             new_items ==
                 IF ~context.should_continue
                 THEN Append(items, NewFromStr(context.character.name, Trim(resp)))
                 ELSE IF items = <<>>
                 THEN <<AddToLast(ChatLogItem(<<>>, <<>>, <<>>), resp)>>
                 ELSE Append(SubSeq(items, 1, Len(items) - 1),
                             AddToLast(Last(items), resp))
         IN  [HideProgressBar([cs EXCEPT !.chatlog =
                                  [context.chatlog EXCEPT !.items = new_items]])
                 EXCEPT !.in_flight_text = None]
    ELSE cs

\* ChatState::process_incoming_llm_engine_messages on the responses q
RECURSIVE ProcessIncomingLlmEngineMessages(_, _)
ProcessIncomingLlmEngineMessages(cs, q) ==
    IF q = <<>> THEN cs
    ELSE ProcessIncomingLlmEngineMessages(ProcessResponse(cs, Head(q)), Tail(q))

\* the chat view once process_input has drained the response channel
Drained == ProcessIncomingLlmEngineMessages(chat, recv_on_client)

\* get_currently_select_chatlogitem_index overflows: len - scroll - 1 in usize
IndexOverflows(cs) == Len(cs.chatlog.items) - cs.chatlog_scroll - 1 < 0

\* the event goes to process_input_for_viewing_chatlog, or to
\* process_input_for_editing_replies
ViewingChatlog(cs) == cs.modal_messagebox = None /\ ~cs.editing_reply
EditingReply(cs) == cs.modal_messagebox = None /\ cs.editing_reply

\* ChatState::process_input: the responses are drained and the index of the
\* selected item is computed, then `handle` runs on the event; when the index
\* overflows, a build with overflow checks panics there and any other build
\* goes on
ChatProcessInput(handle) ==
    /\ main_pc = "ui"
    /\ recv_on_client' = <<>>
    /\ \/ /\ IndexOverflows(Drained)
          /\ main_pc' = "exited"
          /\ UNCHANGED << chat, pending, next_id >>
       \/ handle
    /\ UNCHANGED << model_fileorname, assembled, recv_on_server, workerVars,
                    accepted, sent >>

\* the handler is done with the event and sent nothing
ChatStays(cs) ==
    /\ chat' = cs
    /\ UNCHANGED << main_pc, pending, next_id >>

\* the handler calls send_to_server.send(TextInference(context)): with
\* shown_first show_progress_bar has run before the send, else it runs after
\* the send has returned
ChatSend(cs, context, shown_first) ==
    /\ next_id <= MaxChatRequests
    /\ pending' = Some(TextInference(context))
    /\ next_id' = next_id + 1
    /\ IF shown_first
       THEN /\ chat' = ShowProgressBar(cs, context.character)
            /\ main_pc' = "sending"
       ELSE /\ chat' = cs
            /\ main_pc' = "sending_show"

\* the TextInferenceContext the chat view builds for the main character
OwnerContext(cs, should_continue) ==
    FullTextInferenceContext(cs.character, None, cs.character,
                             cs.other_participants, cs.chatlog,
                             should_continue, DefaultParameters)

\* mutant: the speaker of a message of somebody else is made up from the
\* message's entity
SpeakerOfMutant(cs, context, lastmsg) ==
    IF lastmsg.entity # cs.character.name
    THEN [context EXCEPT !.character = CharacterFileYaml(lastmsg.entity, <<>>)]
    ELSE context

\* "check to see if the last message was sent by the 'main' character or
\* one of the other participants": the first participant with the entity's
\* name becomes the character, with its model override when it has one
SpeakerOf(cs, context, lastmsg) ==
    LET hits == {i \in 1..Len(cs.other_participants) :
                    lastmsg.entity = cs.other_participants[i][1].name}
    IN  IF lastmsg.entity # cs.character.name /\ hits # {}
        THEN LET first == CHOOSE i \in hits : \A j \in hits : i <= j
                 other == cs.other_participants[first]
             IN  [context EXCEPT !.character = other[1],
                                 !.model_config_override =
                                     IF IsSome(other[2]) THEN other[2] ELSE @]
        ELSE context

\* an event that no handler acts on (a tick, a resize, an unbound key)
ChatTick == ChatProcessInput(ChatStays(Drained))

\* a key that finishes the message box
ChatModalKey ==
    ChatProcessInput(
        /\ IsSome(Drained.modal_messagebox)
        /\ ChatStays([Drained EXCEPT !.modal_messagebox = None]))

\* 'r': reply
ChatKeyR ==
    ChatProcessInput(
        /\ ViewingChatlog(Drained)
        /\ ChatStays([Drained EXCEPT !.editing_reply = TRUE]))

\* Enter on the reply "Hi": the message goes into the log, and outside the
\* manual reply mode a response of the main character is requested
ChatReplyEnter ==
    ChatProcessInput(
        /\ EditingReply(Drained)
        /\ Len(Drained.chatlog.items) < MaxChatTurns
        /\ LET new_message == NewFromStr(DisplayName, <<"H", "i">>)
               cs == [Drained EXCEPT !.chatlog.items = Append(@, new_message),
                                     !.editing_reply = FALSE]
           IN  IF ~cs.manual_reply_mode
               THEN ChatSend(cs, OwnerContext(cs, FALSE), FALSE)
               ELSE ChatStays(cs))

\* ctrl-y: another response of the main character
ChatKeyCtrlY ==
    ChatProcessInput(
        /\ ViewingChatlog(Drained)
        /\ ChatSend(Drained, OwnerContext(Drained, FALSE), FALSE))

\* ctrl-r: the last message is removed and requested again from its speaker
ChatKeyCtrlR ==
    ChatProcessInput(
        /\ ViewingChatlog(Drained)
        /\ IF Drained.chatlog.items = <<>>
           THEN ChatStays(Drained)
           ELSE LET items == Drained.chatlog.items
                    last_message == Last(items)
                    cs == [Drained EXCEPT
                              !.chatlog.items = SubSeq(items, 1, Len(items) - 1)]
                IN  ChatSend(cs, SpeakerOf(cs, OwnerContext(cs, FALSE), last_message),
                             TRUE))

\* ctrl-t: the speaker of the last message is asked to continue it
ChatKeyCtrlT ==
    ChatProcessInput(
        /\ ViewingChatlog(Drained)
        /\ LET context == OwnerContext(Drained, TRUE)
           IN  ChatSend(Drained,
                        IF Drained.chatlog.items = <<>> THEN context
                        ELSE SpeakerOf(Drained, context, Last(Drained.chatlog.items)),
                        TRUE))

\* 'm': the manual reply mode is switched; switching it on loads the
\* characters of the chat log's other participants
ChatKeyM ==
    ChatProcessInput(
        /\ ViewingChatlog(Drained)
        /\ LET others == Drained.chatlog.other_participants
           IN  IF Drained.manual_reply_mode
               THEN ChatStays([Drained EXCEPT
                                  !.manual_reply_mode = FALSE,
                                  !.other_participants = <<>>,
                                  !.modal_messagebox = Some("Multi-chat Mode disabled!")])
               ELSE IF IsSome(others)
               THEN ChatStays([Drained EXCEPT
                                  !.manual_reply_mode = TRUE,
                                  !.other_participants =
                                      [i \in 1..Len(Unwrap(others)) |->
                                          << LoadCharacter(
                                                 Unwrap(others)[i].character_filepath),
                                             Unwrap(others)[i].model_config_name >>],
                                  !.modal_messagebox = Some("Multi-chat Mode enabled!")])
               ELSE ChatStays([Drained EXCEPT
                                  !.modal_messagebox =
                                      Some("Other participants need to be defined")]))

\* '1' in the manual reply mode: a response of the main character
ChatKeyOne ==
    ChatProcessInput(
        /\ ViewingChatlog(Drained)
        /\ Drained.manual_reply_mode
        /\ ChatSend(Drained, OwnerContext(Drained, FALSE), FALSE))

\* the digits the user presses for the other participants
ParticipantDigits == {2, 3}

\* '2'..'9', '0' in the manual reply mode: a response of the other
\* participant with that number; the unwrap of other_participants.get(index)
\* panics when there is none
ChatKeyDigit ==
    \E digit \in ParticipantDigits :
        ChatProcessInput(
            /\ ViewingChatlog(Drained)
            /\ Drained.manual_reply_mode
            /\ LET index == digit - 2
                   others == Drained.other_participants
               IN  IF others = <<>>
                   THEN ChatStays(Drained)
                   ELSE IF index + 1 > Len(others)
                   THEN /\ main_pc' = "exited"
                        /\ UNCHANGED << chat, pending, next_id >>
                   ELSE ChatSend(
                            Drained,
                            FullTextInferenceContext(
                                others[index + 1][1], others[index + 1][2],
                                Drained.character, others, Drained.chatlog,
                                FALSE, DefaultParameters),
                            TRUE))

\* 'j' or Down with display_chatlog_downward unset: the selection moves to
\* the next older turn, and one past the oldest
ChatKeyDown ==
    ChatProcessInput(
        /\ ViewingChatlog(Drained)
        /\ ChatStays([Drained EXCEPT
                         !.chatlog_scroll =
                             IF @ + 1 < Len(Drained.chatlog.items)
                             THEN @ + 1 ELSE Len(Drained.chatlog.items)]))

\* 'k' or Up with display_chatlog_downward unset: the selection moves to
\* the next newer turn
ChatKeyUp ==
    ChatProcessInput(
        /\ ViewingChatlog(Drained)
        /\ ChatStays([Drained EXCEPT
                         !.chatlog_scroll = IF @ > 0 THEN @ - 1 ELSE @]))

\* ctrl-x: the selected turn is deleted; ChatLog::remove does nothing for an
\* index that is not in the log, as the wrapped index is
ChatKeyCtrlX ==
    ChatProcessInput(
        /\ ViewingChatlog(Drained)
        /\ LET items == Drained.chatlog.items
               index == Len(items) - Drained.chatlog_scroll - 1
           IN  IF IndexOverflows(Drained)
               THEN ChatStays(Drained)
               ELSE ChatStays([Drained EXCEPT
                                  !.chatlog.items =
                                      SubSeq(items, 1, index)
                                          \o SubSeq(items, index + 2, Len(items))]))

\* send_to_server.send returns and show_progress_bar(self.character) follows
ChatSendThenShow ==
    /\ main_pc = "sending_show"
    /\ IF WorkerEnded
       THEN UNCHANGED << recv_on_server, accepted >>
       ELSE /\ Len(recv_on_server) < RequestCapacity
            /\ recv_on_server' = Append(recv_on_server, Unwrap(pending))
            /\ accepted' = Append(accepted, Unwrap(pending))
    /\ pending' = None
    /\ main_pc' = "ui"
    /\ chat' = ShowProgressBar(chat, chat.character)
    /\ UNCHANGED << model_fileorname, assembled, recv_on_client, workerVars,
                    next_id, sent >>

\* ChatState::render while the chat view waits: render_progress_bar creates
\* the widget
ChatRender ==
    /\ main_pc = "ui"
    /\ chat.waiting_for_operation
    /\ ~chat.editing_reply
    /\ chat.progress_widget = None
    /\ chat' = [chat EXCEPT !.progress_widget = Some("ProgressBarScopeSignal")]
    /\ UNCHANGED << model_fileorname, assembled, recv_on_server, recv_on_client,
                    workerVars, mainVars, accepted, sent >>

\* ------------------------------------------------------------ specifications
Next ==
    \/ WorkerStart
    \/ WorkerSendModelLoaded
    \/ WorkerRecv
    \/ WorkerSwapModel
    \/ WorkerInfer
    \/ WorkerSend
    \/ MainRecvModelLoaded
    \/ UiSubmit
    \/ UiSendComplete
    \/ UiPoll
    \/ UiQuit
    \/ MainTrySendShutdown
    \/ MainJoin
    \/ MainExit

Spec == Init /\ [][Next]_vars

\* the UI submits up to MaxFlood requests for the chatlog owner (no override)
UiSubmitFlood == UiBeginSend(None, MaxFlood)

\* in the flood every inference either succeeds or hits a dead remote host
FloodOutcomes == {"ok", "send_failed"}

WorkerInferFlood == \E out \in FloodOutcomes : WorkerInferWith(out)

NextFlood ==
    \/ WorkerStart
    \/ WorkerSendModelLoaded
    \/ WorkerRecv
    \/ WorkerSwapModel
    \/ WorkerInferFlood
    \/ WorkerSend
    \/ MainRecvModelLoaded
    \/ UiSubmitFlood
    \/ UiSendComplete
    \/ UiPoll
    \/ UiQuit
    \/ MainTrySendShutdown
    \/ MainJoin
    \/ MainExit

SpecFlood == Init /\ [][NextFlood]_vars

WorkerNextFlood ==
    \/ WorkerStart
    \/ WorkerSendModelLoaded
    \/ WorkerRecv
    \/ WorkerSwapModel
    \/ WorkerInferFlood
    \/ WorkerSend

\* the scheduler runs the engine thread whenever it can take a step, and
\* join returns once the engine thread has ended
FairSpecFlood ==
    /\ SpecFlood
    /\ WF_vars(WorkerNextFlood)
    /\ WF_vars(MainJoin)

\* any client of LlmEngine's public channel ends: it may send
\* ImmediateShutdown at any time and go on sending requests after it
ClientShutdown ==
    /\ main_pc = "ui"
    /\ \A i \in 1..Len(accepted) : accepted[i] # ImmediateShutdown
    /\ pending' = Some(ImmediateShutdown)
    /\ main_pc' = "sending"
    /\ UNCHANGED << model_fileorname, chat, assembled, recv_on_server, recv_on_client,
                    workerVars, next_id, accepted, sent >>

NextClient ==
    \/ WorkerStart
    \/ WorkerSendModelLoaded
    \/ WorkerRecv
    \/ WorkerSwapModel
    \/ WorkerInfer
    \/ WorkerSend
    \/ MainRecvModelLoaded
    \/ UiSubmit
    \/ ClientShutdown
    \/ UiSendComplete
    \/ UiPoll

SpecClient == Init /\ [][NextClient]_vars

\* the flood, with the engine thread running on between the drop of main's
\* channel ends and the end of the process
NextTeardown ==
    \/ WorkerStart
    \/ WorkerSendModelLoaded
    \/ WorkerRecv
    \/ WorkerSwapModel
    \/ WorkerInferFlood
    \/ WorkerSend
    \/ MainRecvModelLoaded
    \/ UiSubmitFlood
    \/ UiSendComplete
    \/ UiPoll
    \/ UiQuit
    \/ MainTrySendShutdown
    \/ MainJoin
    \/ MainDropEnds
    \/ MainExit

SpecTeardown == Init /\ [][NextTeardown]_vars

\* ---- the hot-swap in its steps: the engine thread is observed between the
\* release of the loaded model and the return of llm::load_dynamic
NextSwap ==
    \/ WorkerStart
    \/ WorkerSendModelLoaded
    \/ WorkerRecv
    \/ WorkerSwapRelease
    \/ WorkerSwapLoad
    \/ WorkerInfer
    \/ WorkerSend
    \/ MainRecvModelLoaded
    \/ UiSubmit
    \/ UiSendComplete
    \/ UiPoll

SpecSwap == Init /\ [][NextSwap]_vars

\* ---- prompt assembly on its own: the engine thread has taken one request,
\* drawn with the engine's configuration from the sets below, and answers it
\* the prompt templates of the model configuration
TemplateHistory == <<CHAT_HISTORY>>
TemplateSimilar == <<SIMILAR_SENTENCES, "\n", CHAT_HISTORY>>
TemplateAll ==
    <<CHARACTER_DESCRIPTION, "\n", CURRENT_CONTEXT, "\n", USER_DESCRIPTION, "\n",
      SIMILAR_SENTENCES, "\n", CHAT_HISTORY, "\n", USER_NAME, ":",
      CHARACTER_NAME, ":">>

AssemblyTemplates == {TemplateHistory, TemplateSimilar, TemplateAll}

\* the turns of the conversations: User: Hi / Alice: Hello! /
\* Alice: Hello wor / Bob: a (newline) b (space)
AssemblyTurns ==
    { ChatLogItem(DisplayName, << <<"H", "i">> >>, <<>>),
      ChatLogItem(Alice.name, << <<"H", "e", "l", "l", "o", "!">> >>, <<>>),
      ChatLogItem(Alice.name,
                  << <<"H", "e", "l", "l", "o", " ", "w", "o", "r">> >>, <<>>),
      ChatLogItem(Bob.name, << <<"a">>, <<"b", " ">> >>, <<>>) }

\* ConfiguredEmbeddingModel of the embedding engine
AssemblyEmbeddingEngine ==
    [token_cutoff_limit |-> 4, encode_pretext |-> <<>>, query_pretext |-> <<>>]

\* conversations of up to MaxTurns turns, none of them or all of them with
\* the embeddings an earlier request built
AssemblyConversations ==
    LET plain == UNION {[1..n -> AssemblyTurns] : n \in 0..MaxTurns}
    IN  plain \cup {BuildAllVectorEmbeddings(AssemblyEmbeddingEngine, c, TRUE) :
                        c \in plain}

\* context_size of the model configuration with maximum_new_tokens and
\* text_to_token_ratio_prediction of the configuration file
AssemblyBudgets ==
    { [context_size |-> 2048, maximum_new_tokens |-> None, ratio |-> None],
      [context_size |-> 100, maximum_new_tokens |-> None, ratio |-> None],
      [context_size |-> 152, maximum_new_tokens |-> None, ratio |-> None],
      [context_size |-> 160, maximum_new_tokens |-> None, ratio |-> None],
      [context_size |-> 125, maximum_new_tokens |-> Some(100),
       ratio |-> Some(F32(3, 2))] }

\* EngineState with the remote model active
AssemblyEngineState(template, budget, embedding_engine) ==
    LET model_config ==
            [name |-> NameRemote, path |-> None,
             remote_server |-> Some("http://host:5001"),
             context_size |-> budget.context_size,
             similar_sentence_count |-> None,
             prompt_instruct_template |-> template]
    IN  [model |-> None,
         model_config |-> Some(model_config),
         default_model_config |-> Some(model_config),
         config |-> [display_name |-> DisplayName,
                     text_to_token_ratio_prediction |-> budget.ratio,
                     maximum_new_tokens |-> budget.maximum_new_tokens,
                     stop_on_display_name |-> TRUE],
         embedding_engine |-> embedding_engine]

\* the requests: Alice owns the chat log and is to speak
AssemblyContexts ==
    { FullTextInferenceContext(
          Alice, None, Alice, <<<<Bob, None>>>>,
          ChatLog(<<"p", "a", "r", "k">>, Some(<<"m", "e">>), None, items),
          should_continue, DefaultParameters) :
        items \in AssemblyConversations,
        should_continue \in BOOLEAN }

\* the engine thread has taken the request from the channel
InitAssembly ==
    /\ model_fileorname = NameRemote
    /\ recv_on_server = <<>>
    /\ recv_on_client = <<>>
    /\ worker_pc = "infer"
    /\ \E template \in AssemblyTemplates, budget \in AssemblyBudgets,
          embedding_engine \in {None, Some(AssemblyEmbeddingEngine)} :
            engine_state = AssemblyEngineState(template, budget, embedding_engine)
    /\ \E context \in AssemblyContexts :
          /\ new_context = Some(context)
          /\ accepted = <<TextInference(context)>>
    /\ new_text = None
    /\ outcome = "none"
    /\ backend = None
    /\ main_pc = "ui"
    /\ pending = None
    /\ next_id = 1
    /\ sent = <<ModelLoaded>>
    /\ chat = ChatStateNew(Alice, OpenedChatLog)
    /\ assembled = None

\* the remote host answers every assembled prompt
AssemblyOutcomes == {"ok"}

WorkerInferAssembly == WorkerInferPrompt(AssemblyOutcomes)

NextAssembly ==
    \/ WorkerInferAssembly
    \/ WorkerSend

SpecAssembly == InitAssembly /\ [][NextAssembly]_vars

\* ---- prompt assembly with free-form descriptions: the character
\* description, the scene context and the user description are drawn from
\* texts that hold placeholder-looking substrings
FreeTexts ==
    { <<"k", "i", "n", "d">>,
      <<"I", " ", "a", "m", " ", CHARACTER_NAME>>,
      <<"a", "t", " ", CURRENT_CONTEXT>>,
      <<USER_DESCRIPTION, "!">>,
      <<CHAT_HISTORY>>,
      <<"h", "i", " ", USER_NAME>> }

\* the conversations: empty, User: Hi, and User: Hi / Alice: Hello wor
FreeTextConversations ==
    { <<>>,
      << ChatLogItem(DisplayName, << <<"H", "i">> >>, <<>>) >>,
      << ChatLogItem(DisplayName, << <<"H", "i">> >>, <<>>),
         ChatLogItem(Alice.name,
                     << <<"H", "e", "l", "l", "o", " ", "w", "o", "r">> >>, <<>>) >> }

\* the requests: the character owns the chat log and is to speak
FreeTextContexts ==
    { FullTextInferenceContext(
          CharacterFileYaml(Alice.name, description), None,
          CharacterFileYaml(Alice.name, description), <<>>,
          ChatLog(current_context, user_description, None, items),
          should_continue, DefaultParameters) :
        description \in FreeTexts,
        current_context \in FreeTexts,
        user_description \in {None} \cup {Some(t) : t \in FreeTexts},
        items \in FreeTextConversations,
        should_continue \in BOOLEAN }

\* the engine thread has taken the request from the channel; the template
\* has every placeholder
InitFreeText ==
    /\ model_fileorname = NameRemote
    /\ recv_on_server = <<>>
    /\ recv_on_client = <<>>
    /\ worker_pc = "infer"
    /\ \E embedding_engine \in {None, Some(AssemblyEmbeddingEngine)} :
            engine_state =
                AssemblyEngineState(
                    TemplateAll,
                    [context_size |-> 2048, maximum_new_tokens |-> None,
                     ratio |-> None],
                    embedding_engine)
    /\ \E context \in FreeTextContexts :
          /\ new_context = Some(context)
          /\ accepted = <<TextInference(context)>>
    /\ new_text = None
    /\ outcome = "none"
    /\ backend = None
    /\ main_pc = "ui"
    /\ pending = None
    /\ next_id = 1
    /\ sent = <<ModelLoaded>>
    /\ chat = ChatStateNew(Alice, OpenedChatLog)
    /\ assembled = None

SpecFreeText == InitFreeText /\ [][NextAssembly]_vars

\* ---- the chunking of a turn for its embeddings: the engine thread has
\* taken a request whose conversation is one turn of up to MaxLines lines,
\* and the embedding model's token cutoff is drawn from TokenCutoffs
ChunkingLines ==
    { <<"a">>, <<"b", "c", "d">>, <<"e", "f", "g", "h", "i", "j", "k", "l">> }

TokenCutoffs == {1, 2, 4, 100}

ChunkingConversations ==
    { <<ChatLogItem(Bob.name, lines, <<>>)>> :
        lines \in UNION {[1..n -> ChunkingLines] : n \in 1..MaxLines} }

InitChunking ==
    /\ model_fileorname = NameRemote
    /\ recv_on_server = <<>>
    /\ recv_on_client = <<>>
    /\ worker_pc = "infer"
    /\ \E token_cutoff_limit \in TokenCutoffs :
            engine_state =
                AssemblyEngineState(
                    TemplateSimilar,
                    [context_size |-> 2048, maximum_new_tokens |-> None,
                     ratio |-> None],
                    Some([AssemblyEmbeddingEngine EXCEPT
                             !.token_cutoff_limit = token_cutoff_limit]))
    /\ \E items \in ChunkingConversations :
          LET context ==
                  FullTextInferenceContext(
                      Alice, None, Alice, <<<<Bob, None>>>>,
                      ChatLog(<<"p", "a", "r", "k">>, None, None, items),
                      FALSE, DefaultParameters)
          IN  /\ new_context = Some(context)
              /\ accepted = <<TextInference(context)>>
    /\ new_text = None
    /\ outcome = "none"
    /\ backend = None
    /\ main_pc = "ui"
    /\ pending = None
    /\ next_id = 1
    /\ sent = <<ModelLoaded>>
    /\ chat = ChatStateNew(Alice, OpenedChatLog)
    /\ assembled = None

SpecChunking == InitChunking /\ [][NextAssembly]_vars

\* ---- the backend calls on their own: the engine thread has taken one
\* request, drawn with the engine's configuration from the sets below
\* a character whose name is the owner's in lower case
AliceLower ==
    CharacterFileYaml(<<"a", "l", "i", "c", "e">>, <<"c", "o", "y">>)

\* who speaks, who owns the chat log and who else takes part
BackendParticipants ==
    { [character |-> Alice, chatlog_owner |-> Alice, other_participants |-> <<>>],
      [character |-> Alice, chatlog_owner |-> Alice,
       other_participants |-> << <<Bob, Some(NameRemote)>> >>],
      [character |-> Bob, chatlog_owner |-> Alice,
       other_participants |-> << <<Bob, Some(NameRemote)>> >>],
      [character |-> AliceLower, chatlog_owner |-> Alice,
       other_participants |-> << <<AliceLower, None>> >>] }

\* the sampling profiles of the configuration file
SamplingProfiles ==
    { ConfiguredParameters("empty", None, None, None, None, None, None,
                           None, None, None),
      DefaultParameters,
      ConfiguredParameters("mirostat1", Some(40), Some(F32(9, 10)),
                           Some(F32(1, 20)), Some(F32(11, 10)), Some(64),
                           Some(F32(7, 10)), Some(1), Some(F32(1, 10)),
                           Some(F32(5, 1))),
      ConfiguredParameters("mirostat2", None, None, None, Some(F32(11, 10)),
                           None, Some(F32(7, 10)), Some(2), None, None),
      ConfiguredParameters("mirostat2 only", None, None, None, None,
                           None, None, Some(2), None, Some(F32(5, 1))),
      ConfiguredParameters("mirostat0", Some(40), None, None, None, None,
                           Some(F32(7, 10)), Some(0), None, None) }

\* the texts a backend generates: up to MaxPieces of these pieces in a row
BackendPieces ==
    { <<"H", "i", " ">>, DisplayName \o <<":">>, Alice.name \o <<":">>,
      Bob.name \o <<":">> }

RawOutputs ==
    { Join(pieces, <<>>) :
        pieces \in UNION {[1..n -> BackendPieces] : n \in 0..MaxPieces} }

\* a model with a local file, a model on a KoboldAPI host, and a model whose
\* configuration has neither
BackendModelConfigs ==
    { [name |-> NameLocal, path |-> Some(PathLocal), remote_server |-> None,
       context_size |-> 2048, similar_sentence_count |-> None,
       prompt_instruct_template |-> TemplateHistory],
      [name |-> NameRemote, path |-> None,
       remote_server |-> Some("http://host:5001"),
       context_size |-> 2048, similar_sentence_count |-> None,
       prompt_instruct_template |-> TemplateHistory],
      [name |-> NameMissing, path |-> None, remote_server |-> None,
       context_size |-> 2048, similar_sentence_count |-> None,
       prompt_instruct_template |-> TemplateHistory] }

\* EngineState with model_config loaded as the default configuration
BackendEngineState(model_config, stop_on_display_name) ==
    [model |-> model_config.path,
     model_config |-> Some(model_config),
     default_model_config |-> Some(model_config),
     config |-> [display_name |-> DisplayName,
                 text_to_token_ratio_prediction |-> None,
                 maximum_new_tokens |-> None,
                 stop_on_display_name |-> stop_on_display_name],
     embedding_engine |-> None]

\* the requests: the user has said Hi
BackendContexts ==
    { FullTextInferenceContext(
          who.character, None, who.chatlog_owner, who.other_participants,
          ChatLog(<<"p", "a", "r", "k">>, None, None,
                  <<NewFromStr(DisplayName, <<"H", "i">>)>>),
          FALSE, parameters) :
        who \in BackendParticipants, parameters \in SamplingProfiles }

InitBackend ==
    /\ model_fileorname = NameLocal
    /\ recv_on_server = <<>>
    /\ recv_on_client = <<>>
    /\ worker_pc = "infer"
    /\ \E model_config \in BackendModelConfigs, stop_on_display_name \in BOOLEAN :
          engine_state = BackendEngineState(model_config, stop_on_display_name)
    /\ \E context \in BackendContexts :
          /\ new_context = Some(context)
          /\ accepted = <<TextInference(context)>>
    /\ new_text = None
    /\ outcome = "none"
    /\ backend = None
    /\ main_pc = "ui"
    /\ pending = None
    /\ next_id = 1
    /\ sent = <<ModelLoaded>>
    /\ chat = ChatStateNew(Alice, OpenedChatLog)
    /\ assembled = None

\* the backend generates a text, session.infer fails after some tokens, or
\* the KoboldAPI host answers with a status other than 200
BackendOutcomes == {"ok", "infer_error", "status_not_ok"}

WorkerInferBackend == WorkerInferCall(BackendOutcomes, RawOutputs)

NextBackend ==
    \/ WorkerInferBackend
    \/ WorkerSend

SpecBackend == InitBackend /\ [][NextBackend]_vars

\* ---- the chat view and the engine thread: the application has opened
\* Alice's chat log and the engine thread has loaded the remote model
ChatEngineState ==
    AssemblyEngineState(
        TemplateAll,
        [context_size |-> 2048, maximum_new_tokens |-> None, ratio |-> None],
        None)

InitChat ==
    /\ model_fileorname = NameRemote
    /\ recv_on_server = <<>>
    /\ recv_on_client = <<>>
    /\ worker_pc = "recv"
    /\ engine_state = ChatEngineState
    /\ new_context = None
    /\ new_text = None
    /\ outcome = "none"
    /\ backend = None
    /\ main_pc = "ui"
    /\ pending = None
    /\ next_id = 1
    /\ accepted = <<>>
    /\ sent = <<ModelLoaded>>
    /\ chat = ChatStateNew(Alice, OpenedChatLog)
    /\ assembled = None

\* the remote host returns a text or a status other than 200
ChatOutcomes == {"ok", "status_not_ok"}

WorkerInferChat == WorkerInferPrompt(ChatOutcomes)

NextChat ==
    \/ WorkerRecv
    \/ WorkerSwapModel
    \/ WorkerInferChat
    \/ WorkerSend
    \/ ChatTick
    \/ ChatModalKey
    \/ ChatKeyR
    \/ ChatReplyEnter
    \/ ChatKeyCtrlY
    \/ ChatKeyCtrlR
    \/ ChatKeyCtrlT
    \/ ChatKeyM
    \/ ChatKeyOne
    \/ ChatKeyDigit
    \/ UiSendComplete
    \/ ChatSendThenShow
    \/ ChatRender

SpecChat == InitChat /\ [][NextChat]_vars

\* ---- the chat view with an embedding model: the application has opened a
\* chat log of two turns, the engine thread has loaded the remote model and
\* the embedding model, and the user asks for regenerated and continued turns
EmbeddingChatLog ==
    ChatLog(<<"p", "a", "r", "k">>, None,
            Some(<<Participant(Some(NameRemote), "bob.yaml")>>),
            <<NewFromStr(DisplayName, <<"H", "i">>),
              NewFromStr(Alice.name,
                         <<"H", "e", "l", "l", "o", " ", "w", "o", "r">>)>>)

InitChatEmbedding ==
    /\ model_fileorname = NameRemote
    /\ recv_on_server = <<>>
    /\ recv_on_client = <<>>
    /\ worker_pc = "recv"
    /\ engine_state =
           AssemblyEngineState(
               TemplateAll,
               [context_size |-> 2048, maximum_new_tokens |-> None,
                ratio |-> None],
               Some(AssemblyEmbeddingEngine))
    /\ new_context = None
    /\ new_text = None
    /\ outcome = "none"
    /\ backend = None
    /\ main_pc = "ui"
    /\ pending = None
    /\ next_id = 1
    /\ accepted = <<>>
    /\ sent = <<ModelLoaded>>
    /\ chat = ChatStateNew(Alice, EmbeddingChatLog)
    /\ assembled = None

NextChatEmbedding ==
    \/ WorkerRecv
    \/ WorkerSwapModel
    \/ WorkerInferChat
    \/ WorkerSend
    \/ ChatTick
    \/ ChatModalKey
    \/ ChatKeyCtrlY
    \/ ChatKeyCtrlR
    \/ ChatKeyCtrlT
    \/ ChatKeyM
    \/ ChatKeyOne
    \/ ChatKeyDigit
    \/ UiSendComplete
    \/ ChatSendThenShow
    \/ ChatRender

SpecChatEmbedding == InitChatEmbedding /\ [][NextChatEmbedding]_vars

\* ---- the chat view with the keys that move the selection and delete the
\* selected turn
NextChatScroll ==
    \/ WorkerRecv
    \/ WorkerSwapModel
    \/ WorkerInferChat
    \/ WorkerSend
    \/ ChatTick
    \/ ChatModalKey
    \/ ChatKeyR
    \/ ChatReplyEnter
    \/ ChatKeyCtrlY
    \/ ChatKeyCtrlR
    \/ ChatKeyCtrlT
    \/ ChatKeyM
    \/ ChatKeyOne
    \/ ChatKeyDigit
    \/ ChatKeyDown
    \/ ChatKeyUp
    \/ ChatKeyCtrlX
    \/ UiSendComplete
    \/ ChatSendThenShow
    \/ ChatRender

SpecChatScroll == InitChat /\ [][NextChatScroll]_vars

\* ------------------------------------------------------------------ history
IsTextInference(m) == m.type = "TextInference"
IsNewText(m) == m.type = "NewText"

IsPrefix(p, q) == Len(p) <= Len(q) /\ SubSeq(q, 1, Len(p)) = p

\* the contexts carried by the messages of q, in order
Contexts(q) == [i \in 1..Len(q) |-> q[i].context]

\* the requests the engine thread has taken from the request channel
Dequeued == SubSeq(accepted, 1, Len(accepted) - Len(recv_on_server))

\* the accepted requests that no ImmediateShutdown precedes
BeforeShutdown(q) ==
    LET stops == {i \in 1..Len(q) : q[i] = ImmediateShutdown}
    IN  IF stops = {} THEN q
        ELSE SubSeq(q, 1, (CHOOSE i \in stops : \A j \in stops : i <= j) - 1)

\* contexts of the TextInference requests accepted before any shutdown
RequestedContexts == Contexts(SelectSeq(BeforeShutdown(accepted), IsTextInference))

\* contexts of the NewText responses the engine thread has sent
AnsweredContexts == Contexts(SelectSeq(sent, IsNewText))

\* the engine thread takes no further step without a new request
WorkerQuiescent ==
    \/ WorkerEnded
    \/ worker_pc = "recv" /\ recv_on_server = <<>>

\* -------------------------------------------------------------------- claims

\* C1: the NewText responses answer the accepted TextInference requests one
\* for one and in submission order: what has been answered is always a prefix
\* of what was requested, and once the engine thread has nothing left to do
\* every request accepted before a shutdown has its NewText.
C1_OneNewTextPerRequest ==
    /\ IsPrefix(AnsweredContexts, RequestedContexts)
    /\ WorkerQuiescent => AnsweredContexts = RequestedContexts

\* C2: ModelLoaded is the first response and the only ModelLoaded; it is sent
\* after the default configuration was found and its local model loaded, and
\* before the engine thread takes any request.
C2_ModelLoadedFirstAndOnce ==
    /\ \A i \in 1..Len(sent) : (sent[i] = ModelLoaded) <=> (i = 1)
    /\ sent = <<>> => Dequeued = <<>>
    /\ sent # <<>> =>
          /\ IsSome(FindModelConfiguration(model_fileorname))
          /\ engine_state.default_model_config = FindModelConfiguration(model_fileorname)
    /\ worker_pc = "loaded" =>
          /\ sent = <<>>
          /\ engine_state.model = Unwrap(engine_state.default_model_config).path
    /\ worker_pc \in {"recv", "swap", "infer", "send", "done"} => sent # <<>>

\* a model hot-swap has happened and responses were sent after it
C2_Witness ==
    /\ Len(sent) >= 3
    /\ sent[1] = ModelLoaded
    /\ IsSome(engine_state.model_config)
    /\ engine_state.model_config # engine_state.default_model_config

C4_JoinReturns == (main_pc = "join") ~> (main_pc = "joined")

\* C5: taking ImmediateShutdown from the channel ends the engine thread in
\* that step, and an ended engine thread takes no request and sends no
\* response.
C5_ShutdownTerminatesAtOnce ==
    [][ /\ ( /\ worker_pc = "recv"
             /\ recv_on_server # <<>>
             /\ Head(recv_on_server) = ImmediateShutdown
             /\ recv_on_server' = Tail(recv_on_server) )
           => (worker_pc' = "done" /\ sent' = sent)
        /\ worker_pc = "done"
           => /\ worker_pc' = "done"
              /\ sent' = sent
              /\ Len(recv_on_client') <= Len(recv_on_client)
              /\ recv_on_server' = recv_on_server
              /\ new_context' = new_context ]_vars

\* the engine thread ended on a shutdown with a TextInference still queued
C5_Witness ==
    /\ worker_pc = "done"
    /\ \E i \in 1..Len(recv_on_server) : IsTextInference(recv_on_server[i])

\* a step of the two channels: none holds more than its capacity, a message
\* enters at the tail and is the one its producer is sending, a message
\* leaves at the head and is the one its consumer then has, and a producer
\* blocked in send() on a full channel stays blocked with its message
ChannelStep ==
    /\ Len(recv_on_server') <= RequestCapacity
    /\ Len(recv_on_client') <= ResponseCapacity
    /\ recv_on_server' # recv_on_server =>
          \/ /\ Len(recv_on_server) < RequestCapacity
             /\ main_pc = "sending"
             /\ recv_on_server' = Append(recv_on_server, Unwrap(pending))
          \/ /\ Len(recv_on_server) < RequestCapacity
             /\ main_pc = "shutdown"
             /\ recv_on_server' = Append(recv_on_server, ImmediateShutdown)
          \/ /\ recv_on_server # <<>>
             /\ recv_on_server' = Tail(recv_on_server)
             /\ \/ Head(recv_on_server) = ImmediateShutdown /\ worker_pc' = "done"
                \/ /\ IsTextInference(Head(recv_on_server))
                   /\ new_context' = Some(Head(recv_on_server).context)
    /\ recv_on_client' # recv_on_client =>
          \/ /\ Len(recv_on_client) < ResponseCapacity
             /\ worker_pc = "loaded"
             /\ recv_on_client' = Append(recv_on_client, ModelLoaded)
          \/ /\ Len(recv_on_client) < ResponseCapacity
             /\ worker_pc = "send"
             /\ recv_on_client' =
                   Append(recv_on_client, NewText(new_text, Unwrap(new_context)))
          \/ /\ recv_on_client # <<>>
             /\ recv_on_client' = Tail(recv_on_client)
             /\ main_pc \in {"wait_loaded", "ui"}
    /\ (main_pc = "sending" /\ ~WorkerEnded /\ main_pc' # "sending") =>
          recv_on_server' = Append(recv_on_server, Unwrap(pending))
    /\ (main_pc = "sending" /\ ~WorkerEnded /\ Len(recv_on_server) = RequestCapacity) =>
          (main_pc' = "sending" /\ pending' = pending)
    /\ (worker_pc = "send" /\ worker_pc' # "send") =>
          recv_on_client' = Append(recv_on_client, NewText(new_text, Unwrap(new_context)))
    /\ (worker_pc \in {"loaded", "send"} /\ Len(recv_on_client) = ResponseCapacity) =>
          (worker_pc' = worker_pc /\ new_text' = new_text /\ new_context' = new_context)

\* main's ImmediateShutdown waits for a slot when the request channel is full
ShutdownSenderBlocks ==
    (main_pc = "shutdown" /\ ~WorkerEnded /\ Len(recv_on_server) = RequestCapacity) =>
        main_pc' = "shutdown"

\* C6 (as stated): both channels are FIFO and hold at most 10 messages, and
\* every producer that sends into a full channel blocks until a slot is free,
\* so that no message is dropped or reordered.
C6_EveryProducerBlocks == [][ChannelStep /\ ShutdownSenderBlocks]_vars

\* C6 (amended): both channels are FIFO and hold at most 10 messages, and a
\* producer that calls send() on a full channel blocks until a slot is free;
\* no message a channel accepted is dropped or reordered. (main's try_send of
\* ImmediateShutdown is the one producer that does not wait.)
C6_BoundedFifoChannels == [][ChannelStep]_vars

\* both channels are full, with the UI thread and the engine thread each
\* blocked in send()
C6_Witness ==
    /\ Len(recv_on_server) = RequestCapacity
    /\ main_pc = "sending"
    /\ Len(recv_on_client) = ResponseCapacity
    /\ worker_pc = "send"

C8_LocalErrorIsNone ==
    outcome = "infer_error" => (new_text = None /\ worker_pc # "panicked")

\* C9: when the KoboldAPI call itself fails (no connection or timeout, body
\* unreadable, JSON malformed) the inference result is None and the engine
\* thread keeps running.
C9_RemoteHardFailureIsNone ==
    outcome \in {"send_failed", "body_unreadable", "bad_json"} =>
        (new_text = None /\ worker_pc # "panicked")

\* the request being handled names a model_config_override that the
\* configuration does not have
OverrideNotFound ==
    /\ IsSome(new_context)
    /\ IsSome(Unwrap(new_context).model_config_override)
    /\ FindModelConfiguration(Unwrap(Unwrap(new_context).model_config_override)) = None

\* C10: a request whose model_config_override is not in the configuration
\* leaves the active configuration and the loaded model as they were, and the
\* engine thread goes on to the inference instead of ending.
C10_MissingOverrideKeepsProfile ==
    [][ (worker_pc = "swap" /\ OverrideNotFound /\ worker_pc' # "swap") =>
            (worker_pc' = "infer" /\ engine_state' = engine_state) ]_vars

\* C11: a hot-swap whose configuration is in the file never ends the engine
\* thread: it goes on to the inference, with the new model loaded or, when
\* the load failed, with the model and configuration it had before.
C11_FailedSwapKeepsModel ==
    [][ ( /\ worker_pc = "swap"
          /\ worker_pc' # "swap"
          /\ CfgToLoad(engine_state, Unwrap(new_context)) # None
          /\ FindModelConfiguration(
                 Unwrap(CfgToLoad(engine_state, Unwrap(new_context)))) # None )
        => /\ worker_pc' = "infer"
           /\ \/ engine_state' = engine_state
              \/ LET model_config ==
                         Unwrap(FindModelConfiguration(
                             Unwrap(CfgToLoad(engine_state, Unwrap(new_context)))))
                 IN  engine_state' =
                         [engine_state EXCEPT !.model = model_config.path,
                                              !.model_config = Some(model_config)]
      ]_vars

\* C12 (as stated): a send or a receive that fails because the channel is
\* closed ends the engine thread.
C12_ChannelErrorsAreFatal ==
    [][ ( /\ ClientEndsDropped
          /\ \/ worker_pc = "send"
             \/ worker_pc = "recv" /\ recv_on_server = <<>>
          /\ worker_pc' # worker_pc )
        => worker_pc' = "panicked" ]_vars

\* C12 (amended): a receive that fails on the closed and empty request
\* channel ends the engine thread, and an ended engine thread takes no request
\* and sends nothing; a NewText send that fails on the closed response channel
\* is only logged: nothing is delivered and the engine thread goes back to
\* recv, where it still takes the requests left in the request channel.
C12_RecvErrorIsFatal ==
    [][ /\ ( /\ ClientEndsDropped
             /\ worker_pc = "recv"
             /\ recv_on_server = <<>>
             /\ worker_pc' # "recv" )
           => worker_pc' = "panicked"
        /\ (ClientEndsDropped /\ worker_pc = "send" /\ worker_pc' # "send")
           => /\ worker_pc' = "recv"
              /\ sent' = sent
              /\ recv_on_client' = recv_on_client
        /\ ( /\ ClientEndsDropped
             /\ worker_pc = "recv"
             /\ recv_on_server # <<>>
             /\ worker_pc' # "recv" )
           => /\ worker_pc' \in {"swap", "done"}
              /\ recv_on_server' = Tail(recv_on_server)
        /\ worker_pc = "panicked"
           => /\ worker_pc' = "panicked"
              /\ recv_on_server' = recv_on_server
              /\ sent' = sent ]_vars

\* with main's channel ends dropped the engine thread answered into the
\* closed response channel at least twice, drained the request channel and
\* then panicked in recv
C12_Witness ==
    /\ ClientEndsDropped
    /\ worker_pc = "panicked"
    /\ outcome = "ok"
    /\ recv_on_server = <<>>
    /\ Len(SelectSeq(Dequeued, IsTextInference)) - Len(SelectSeq(sent, IsNewText)) >= 2

\* -------------------------------------------------- claims: prompt assembly
\* a context with the embeddings of its turns left out
WithoutEmbeddings(context) ==
    [context EXCEPT !.chatlog.items =
        [i \in 1..Len(context.chatlog.items) |->
            [context.chatlog.items[i] EXCEPT !.embeddings = <<>>]]]

\* C13: the context of the k-th NewText response is the context of the k-th
\* TextInference request with nothing but the turns' embeddings changed: the
\* speaking character, the override, the owner, the other participants, the
\* continue flag, the parameters, the scene, the user description and every
\* turn's speaker and lines are the request's.
C13_ResponseCarriesRequestContext ==
    LET answers == SelectSeq(sent, IsNewText)
        requests == SelectSeq(accepted, IsTextInference)
    IN  \A k \in 1..Len(answers) :
            /\ k <= Len(requests)
            /\ WithoutEmbeddings(answers[k].context)
                   = WithoutEmbeddings(requests[k].context)

\* a response to a request of several turns whose embeddings the engine
\* thread built
C13_Witness ==
    LET answers == SelectSeq(sent, IsNewText)
    IN  /\ answers # <<>>
        /\ Len(accepted[1].context.chatlog.items) >= 2
        /\ answers[1].context # accepted[1].context
        /\ \A i \in 1..Len(answers[1].context.chatlog.items) :
               answers[1].context.chatlog.items[i].embeddings # <<>>

\* the request the engine thread assembled the prompt for, and its
\* conversation
AssembledFor == accepted[1].context
Conversation == AssembledFor.chatlog.items

\* the turns that may go into the history: with should_continue the newest
\* turn is the line to continue
EligibleTurns ==
    IF AssembledFor.should_continue /\ Conversation # <<>>
    THEN SubSeq(Conversation, 1, Len(Conversation) - 1)
    ELSE Conversation

\* the turns from `from` to the newest, oldest first, each as
\* "speaker: lines" followed by a newline
RECURSIVE TurnsText(_, _)
TurnsText(turns, from) ==
    IF from > Len(turns) THEN <<>>
    ELSE GetNameAndItemsAsString(turns[from]) \o <<"\n">>
             \o TurnsText(turns, from + 1)

\* the text put in the place of <|chat_history|>
HistorySubstitution == TrimEnd(Unwrap(assembled).history_log)

\* char_budget of the budget formula, in the integers:
\* (context_size - max_new_tokens) * ratio - len(prompt built so far)
CharBudget ==
    LET ratio == IF IsSome(engine_state.config.text_to_token_ratio_prediction)
                 THEN Unwrap(engine_state.config.text_to_token_ratio_prediction)
                 ELSE F32(DEFAULT_TEXT_TO_TOKEN_RATIO, 1)
        tokens == Unwrap(engine_state.model_config).context_size
                      - (IF IsSome(engine_state.config.maximum_new_tokens)
                         THEN Unwrap(engine_state.config.maximum_new_tokens)
                         ELSE DEFAULT_MAX_NEW_TOKENS)
    IN  (tokens * ratio.num) \div ratio.den - StrLen(Unwrap(assembled).filled)

\* C16: the history substitution is never longer than char_budget, except
\* when the single retained turn alone is longer than char_budget (an empty
\* history is within any budget).
C16_HistoryWithinBudget ==
    IsSome(assembled) =>
        \/ HistorySubstitution = <<>>
        \/ StrLen(HistorySubstitution) <= CharBudget
        \/ /\ EligibleTurns # <<>>
           /\ Unwrap(assembled).history_log
                  = TurnsText(EligibleTurns, Len(EligibleTurns))
           /\ StrLen(GetNameAndItemsAsString(Last(EligibleTurns))) > CharBudget

\* C17: when a turn is eligible for the history, the history substitution
\* ends with the newest eligible turn in full, whatever the budget.
C17_NewestTurnAlwaysKept ==
    IsSome(assembled) /\ EligibleTurns # <<>> =>
        LET newest == GetNameAndItemsAsString(Last(EligibleTurns)) \o <<"\n">>
            history_log == Unwrap(assembled).history_log
        IN  /\ Len(newest) <= Len(history_log)
            /\ SubSeq(history_log, Len(history_log) - Len(newest) + 1,
                      Len(history_log)) = newest

\* C18: the history substitution is the newest eligible turns from some
\* turn on, oldest first, each as "speaker: lines" and one newline apart,
\* with trailing whitespace trimmed; it is all eligible turns when they fit
\* the limit the walk computed; User/"Hi" and Alice/"Hello!" under the
\* template "<|chat_history|>" give "User: Hi\nAlice: Hello!"; an empty
\* conversation gives an empty history.
C18_HistoryIsNewestRun ==
    IsSome(assembled) =>
        LET a == Unwrap(assembled)
            template == Unwrap(engine_state.model_config).prompt_instruct_template
        IN  /\ \E from \in 1..(Len(EligibleTurns) + 1) :
                  /\ a.history_log = TurnsText(EligibleTurns, from)
                  /\ a.prompt = Replace(a.filled, CHAT_HISTORY,
                                        TrimEnd(TurnsText(EligibleTurns, from)))
                                    \o a.continue_line
            /\ StrLen(TurnsText(EligibleTurns, 1)) + StrLen(a.continue_line)
                   < a.prompt_limit
                 => a.history_log = TurnsText(EligibleTurns, 1)
            /\ Conversation = <<>> => HistorySubstitution = <<>>
            /\ ( /\ template = TemplateHistory
                 /\ ~AssembledFor.should_continue
                 /\ Unwrap(engine_state.model_config).context_size = 2048
                 /\ WithoutEmbeddings(AssembledFor).chatlog.items
                        = << ChatLogItem(DisplayName, << <<"H", "i">> >>, <<>>),
                             ChatLogItem(Alice.name,
                                         << <<"H", "e", "l", "l", "o", "!">> >>,
                                         <<>>) >> )
                 => a.prompt = << "U", "s", "e", "r", ":", " ", "H", "i", "\n",
                                  "A", "l", "i", "c", "e", ":", " ",
                                  "H", "e", "l", "l", "o", "!" >>

\* a prompt whose history is the two newest of three eligible turns, and
\* whose newest turn ends in whitespace that was trimmed
C18_Witness ==
    /\ IsSome(assembled)
    /\ Len(EligibleTurns) = 3
    /\ Unwrap(assembled).history_log = TurnsText(EligibleTurns, 2)
    /\ HistorySubstitution # Unwrap(assembled).history_log
    /\ IsWhitespace(Last(Last(Last(EligibleTurns).lines)))
    /\ Unwrap(assembled).prompt_limit < 100

\* the continuation the description states: the newest turn's text without
\* the speaking character's name and the ": " that follows it
StatedContinuation ==
    LET turn_str == GetNameAndItemsAsString(Last(Conversation))
        prefix == AssembledFor.character.name \o <<":", " ">>
    IN  IF StartsWith(turn_str, prefix)
        THEN SubSeq(turn_str, Len(prefix) + 1, Len(turn_str))
        ELSE turn_str

\* the continuation the walk takes: the newest turn's text from the byte
\* after the name's length on, so with the space that follows the colon
CodeContinuation ==
    LET turn_str == GetNameAndItemsAsString(Last(Conversation))
        name == AssembledFor.character.name
    IN  IF StartsWith(turn_str, name)
        THEN SubSeq(turn_str, Len(name) + 2, Len(turn_str))
        ELSE turn_str

\* the prompt is the template with the history of the eligible turns from
\* some turn on, followed by `continuation` as its last bytes
PromptEndsWith(continuation) ==
    \E from \in 1..(Len(EligibleTurns) + 1) :
        Unwrap(assembled).prompt
            = Replace(Unwrap(assembled).filled, CHAT_HISTORY,
                      TrimEnd(TurnsText(EligibleTurns, from)))
                  \o continuation

\* C19 (as stated): with should_continue and a non-empty conversation the
\* newest turn is not in the history, and the prompt ends with the newest
\* turn's text without the speaking character's name prefix ("Hello wor"
\* for "Alice: Hello wor"), right after the history substitution.
C19_ContinuationNameStripped ==
    IsSome(assembled) /\ AssembledFor.should_continue /\ Conversation # <<>> =>
        PromptEndsWith(StatedContinuation)

\* C19 (amended): with should_continue and a non-empty conversation the
\* newest turn is not in the history, and the prompt ends, right after the
\* history substitution, with the newest turn's text without its first
\* len(name) + 1 bytes when it starts with the speaking character's name
\* (" Hello wor" for "Alice: Hello wor": the space after the colon stays),
\* and with the whole text of the newest turn when it does not.
C19_ContinuationKeepsSpace ==
    IsSome(assembled) /\ AssembledFor.should_continue /\ Conversation # <<>> =>
        /\ PromptEndsWith(CodeContinuation)
        /\ Unwrap(assembled).continue_line = CodeContinuation

\* Alice continues "Alice: Hello wor" after a history of one turn
C19_Witness ==
    /\ IsSome(assembled)
    /\ AssembledFor.should_continue
    /\ AssembledFor.character = Alice
    /\ Len(Conversation) = 2
    /\ GetNameAndItemsAsString(Last(Conversation))
           = << "A", "l", "i", "c", "e", ":", " ",
                "H", "e", "l", "l", "o", " ", "w", "o", "r" >>
    /\ Unwrap(assembled).continue_line
           = << " ", "H", "e", "l", "l", "o", " ", "w", "o", "r" >>
    /\ Unwrap(assembled).history_log # <<>>

\* C20: when the template has <|similar_sentences|> and no embedding engine
\* is configured, the assembled prompt has the placeholder replaced by the
\* empty string, whatever the conversation.
C20_PlaceholderRemovedWithoutEngine ==
    /\ IsSome(assembled)
    /\ engine_state.embedding_engine = None
    /\ Contains(Unwrap(engine_state.model_config).prompt_instruct_template,
                SIMILAR_SENTENCES)
    => ~Contains(Unwrap(assembled).prompt, SIMILAR_SENTENCES)

\* the prompt "User: Hi\nAlice: Hello!" was assembled
C18_ExampleWitness ==
    /\ IsSome(assembled)
    /\ Unwrap(assembled).prompt
           = << "U", "s", "e", "r", ":", " ", "H", "i", "\n",
                "A", "l", "i", "c", "e", ":", " ", "H", "e", "l", "l", "o", "!" >>


\* ------------------------------------------------------- claims: chat view
\* the chat view shows no wait for a response
NotWaiting(cs) ==
    /\ ~cs.waiting_for_operation
    /\ cs.progress_widget = None
    /\ cs.in_flight_text = None

\* a step in which process_input takes a NewText from the response channel
\* and its handler sends no request
ProcessesNewText ==
    /\ main_pc = "ui"
    /\ main_pc' = "ui"
    /\ \E i \in 1..Len(recv_on_client) : IsNewText(recv_on_client[i])
    /\ recv_on_client' = <<>>

\* C14: once the chat view has processed a NewText response, with a text or
\* with None, it no longer waits: waiting_for_operation is false and the
\* progress widget and the in-flight text are gone.
C14_AnsweredRequestStopsWaiting == [][ProcessesNewText => NotWaiting(chat')]_vars

\* the speaking character of a request is the owner of the chat log or the
\* character of one of the request's other participants
SpeakerIsParticipant(context) ==
    \/ context.character = context.chatlog_owner
    \/ \E i \in 1..Len(context.other_participants) :
          context.other_participants[i][1] = context.character

\* C15: in every TextInference request the chat view sends, the speaking
\* character is the chat log's owner or the character of an entry of the
\* request's other_participants.
C15_SpeakerIsOwnerOrParticipant ==
    /\ \A i \in 1..Len(accepted) :
          IsTextInference(accepted[i]) => SpeakerIsParticipant(accepted[i].context)
    /\ IsSome(pending) /\ IsTextInference(Unwrap(pending))
          => SpeakerIsParticipant(Unwrap(pending).context)

\* a request for Bob, another participant of Alice's chat log, with the
\* model override of his entry
C15_Witness ==
    \E i \in 1..Len(accepted) :
        /\ IsTextInference(accepted[i])
        /\ accepted[i].context.character = Bob
        /\ accepted[i].context.chatlog_owner = Alice
        /\ accepted[i].context.other_participants = << <<Bob, Some(NameRemote)>> >>
        /\ accepted[i].context.model_config_override = Some(NameRemote)

\* ------------------------------------------------------ claims: model hot-swap
\* the model configuration a request requires: the one its
\* model_config_override names, or the default one without an override
RequiredConfig(es, ctx) ==
    IF IsSome(ctx.model_config_override)
    THEN FindModelConfiguration(Unwrap(ctx.model_config_override))
    ELSE es.default_model_config

\* C28: once the engine thread has handled a TextInference request (it is
\* about to send the response), the active model configuration is the one the
\* request's override names, or the default one when the override is unset,
\* and the backend that was called is that configuration's: text_infer when
\* it has a local path, text_infer_kobold otherwise.
C28_ActiveProfileIsRequired ==
    worker_pc = "send" =>
        /\ engine_state.model_config =
               RequiredConfig(engine_state, Unwrap(new_context))
        /\ IsSome(backend)
        /\ Unwrap(backend).function =
               IF IsSome(Unwrap(engine_state.model_config).path)
               THEN "text_infer" ELSE "text_infer_kobold"

\* a request without an override has been handled with the local default
\* model after a request that had the remote model swapped in
C28_Witness ==
    /\ worker_pc = "send"
    /\ model_fileorname = NameLocal
    /\ Unwrap(new_context).model_config_override = None
    /\ Unwrap(backend).function = "text_infer"
    /\ \E i \in 1..Len(sent) :
          /\ IsNewText(sent[i])
          /\ sent[i].context.model_config_override = Some(NameRemote)

\* the local models in memory: the one engine_state.model owns and the one
\* llm::load_dynamic is building
ResidentModels ==
    (IF IsSome(engine_state.model) THEN 1 ELSE 0)
        + (IF worker_pc = "loading" THEN 1 ELSE 0)

\* C29: at every point of a hot-swap at most one local model is in memory,
\* and none while the active model configuration is a remote one.
C29_OneModelResident ==
    /\ ResidentModels <= 1
    /\ (IsSome(engine_state.model_config)
            /\ Unwrap(engine_state.model_config).path = None)
        => ResidentModels = 0

\* the engine thread started with the local model and its first request has
\* it load a local model: the one it had is released, the load is under way
C29_Witness ==
    /\ worker_pc = "loading"
    /\ model_fileorname = NameLocal
    /\ Len(Dequeued) = 1
    /\ engine_state.model = None

\* C30: a request whose required model configuration is the active one makes
\* the engine thread release and load nothing: it goes on to the inference
\* with engine_state as it was, also when the override names the active
\* configuration in another letter case or by its path.
C30_ActiveProfileNotReloaded ==
    [][ ( /\ worker_pc = "swap"
          /\ worker_pc' # "swap"
          /\ RequiredConfig(engine_state, Unwrap(new_context))
                 = engine_state.model_config )
        => (worker_pc' = "infer" /\ engine_state' = engine_state) ]_vars

\* ------------------------------------------------------ claims: backend calls
\* the request being handled has a backend called for it
CalledFor(function) ==
    IsSome(backend) /\ Unwrap(backend).function = function

\* the sampling profile of the request being handled has mirostat 1 or 2
MirostatOn ==
    /\ IsSome(Unwrap(new_context).parameters.mirostat)
    /\ Unwrap(Unwrap(new_context).parameters.mirostat) \in {1, 2}

ClassicalSamplers == {"top_k", "top_p", "min_p", "temperature"}

C22_MirostatExcludesClassicalRemote ==
    (CalledFor("text_infer_kobold") /\ MirostatOn) =>
        /\ Unwrap(backend).textgen_request.temperature = None
        /\ Unwrap(backend).textgen_request.top_k = None
        /\ Unwrap(backend).textgen_request.top_p = None
        /\ Unwrap(backend).textgen_request.min_p = None

\* the names of the request being handled: the user, the speaking character,
\* the chat log's owner and the other participants
ParticipantNames ==
    {engine_state.config.display_name,
     Unwrap(new_context).character.name,
     Unwrap(new_context).chatlog_owner.name}
        \cup {Unwrap(new_context).other_participants[i][1].name :
                 i \in 1..Len(Unwrap(new_context).other_participants)}

\* the text returned for the request being handled, with name trimming on
TrimmedText ==
    /\ worker_pc = "send"
    /\ IsSome(new_text)
    /\ engine_state.config.stop_on_display_name

\* the offsets at which a participant's name and a colon start in s
NameOffsets(s) ==
    {Unwrap(Find(s, name \o <<":">>)) :
        name \in {n \in ParticipantNames : IsSome(Find(s, n \o <<":">>))}}

\* C23: with stop_on_display_name the returned text is the generated text cut
\* at the earliest "name:" of the user, the speaking character, the chat
\* log's owner and the other participants, so that it holds none of them.
C23_TextStopsAtEarliestName ==
    TrimmedText =>
        LET raw == Unwrap(backend).inferred_string
            offsets == NameOffsets(raw)
        IN  /\ Unwrap(new_text) =
                   IF offsets = {} THEN raw
                   ELSE SubSeq(raw, 1,
                               CHOOSE i \in offsets : \A j \in offsets : i <= j)
            /\ NameOffsets(Unwrap(new_text)) = {}

\* C24: the name trimming is idempotent: applied to the text it returned, for
\* the same participants, it returns that text.
C24_TrimIsIdempotent ==
    TrimmedText =>
        SplitInferenceAtDisplayNames(engine_state, Unwrap(new_context),
                                     Unwrap(new_text)) = Unwrap(new_text)

\* a text was cut: the generated text had two names in it and the returned
\* text is what came before the first
C24_Witness ==
    /\ TrimmedText
    /\ Unwrap(backend).inferred_string =
           <<"H", "i", " ">> \o Bob.name \o <<":">> \o DisplayName \o <<":">>
    /\ Unwrap(new_text) = <<"H", "i", " ">>

\* the stop sequence of a name
StopSequenceOf(name) == name \o <<":", " ">>

\* C25: on the remote path with stop_on_display_name the request's
\* stop_sequence has "name: " for the user, the speaking character, the chat
\* log's owner when another character speaks, and every other participant;
\* without stop_on_display_name the request has no stop_sequence.
C25_StopSequencesNameEveryone ==
    CalledFor("text_infer_kobold") =>
        LET stop_sequence == Unwrap(backend).textgen_request.stop_sequence
        IN  IF engine_state.config.stop_on_display_name
            THEN /\ IsSome(stop_sequence)
                 /\ \A name \in ParticipantNames :
                       \E i \in 1..Len(Unwrap(stop_sequence)) :
                           Unwrap(stop_sequence)[i] = StopSequenceOf(name)
            ELSE stop_sequence = None

\* C26: no backend is called for a model configuration that has neither a
\* local path nor a remote server.
C26_NoBackendNoDispatch ==
    IsSome(backend) =>
        \/ IsSome(Unwrap(engine_state.model_config).path)
        \/ IsSome(Unwrap(engine_state.model_config).remote_server)

\* ------------------------------------------------------- claims: embeddings
\* the embeddings build_all_vector_embeddings computes for a turn as it is
EmbeddingsOf(item) ==
    BuildAllVectorEmbeddings(Unwrap(engine_state.embedding_engine),
                             <<item>>, TRUE)[1].embeddings

\* C27: the embeddings stored with a turn of the chat log are none, or the
\* ones computed from its current lines.
C27_EmbeddingsMatchLines ==
    \A i \in 1..Len(chat.chatlog.items) :
        \/ chat.chatlog.items[i].embeddings = <<>>
        \/ chat.chatlog.items[i].embeddings = EmbeddingsOf(chat.chatlog.items[i])


\* ------------------------------------------- claims: free-form descriptions
\* the template with every placeholder replaced at once by the value the
\* request gives it, and no value looked at again: the descriptions, the
\* matches of the similarity search, the names and the history
VerbatimPrompt ==
    LET a == Unwrap(assembled)
        Value(u) ==
            CASE u = CHARACTER_DESCRIPTION -> AssembledFor.character.description
              [] u = CURRENT_CONTEXT -> AssembledFor.chatlog.current_context
              [] u = USER_DESCRIPTION ->
                     IF IsSome(AssembledFor.chatlog.user_description)
                     THEN Unwrap(AssembledFor.chatlog.user_description)
                     ELSE <<u>>
              [] u = SIMILAR_SENTENCES ->
                     IF Conversation = <<>> THEN <<u>>
                     ELSE Join([k \in 1..Len(a.matches) |-> a.matches[k].text],
                               <<"\n">>)
              [] u = CHARACTER_NAME -> AssembledFor.character.name
              [] u = USER_NAME -> engine_state.config.display_name
              [] u = CHAT_HISTORY -> TrimEnd(a.history_log)
              [] OTHER -> <<u>>
        template == Unwrap(engine_state.model_config).prompt_instruct_template
        RECURSIVE Substituted(_)
        Substituted(i) ==
            IF i > Len(template) THEN <<>>
            ELSE Value(template[i]) \o Substituted(i + 1)
    IN  Substituted(1) \o a.continue_line

\* C31: placeholder-looking substrings of the character description, the
\* scene context and the user description are not expanded: the assembled
\* prompt is the template with each placeholder replaced by its value, the
\* descriptions verbatim, whatever substitution steps run later.
C31_DescriptionsAreVerbatim ==
    IsSome(assembled) => Unwrap(assembled).prompt = VerbatimPrompt


\* -------------------------------------------------- claims: budget, matches
\* maximum_new_tokens and text_to_token_ratio_prediction as the budget
\* formula reads them
TokenCount ==
    IF IsSome(engine_state.config.maximum_new_tokens)
    THEN Unwrap(engine_state.config.maximum_new_tokens)
    ELSE DEFAULT_MAX_NEW_TOKENS

TextToTokenRatio ==
    IF IsSome(engine_state.config.text_to_token_ratio_prediction)
    THEN Unwrap(engine_state.config.text_to_token_ratio_prediction)
    ELSE F32(DEFAULT_TEXT_TO_TOKEN_RATIO, 1)

\* C33: the character budget never underflows: whenever a prompt is
\* assembled, context_size >= max_new_tokens, and
\* (context_size - max_new_tokens) * chars_per_token_estimate is at least
\* the length of the prompt built before the history step.
C33_BudgetNeverUnderflows ==
    IsSome(assembled) =>
        LET context_size == Unwrap(engine_state.model_config).context_size
        IN  /\ context_size >= TokenCount
            /\ ((context_size - TokenCount) * TextToTokenRatio.num)
                   \div TextToTokenRatio.den
                 >= StrLen(Unwrap(assembled).filled)


\* the turn the similarity search embeds as its query: the last one, or the
\* second-to-last with should_continue (as a position in Conversation)
QueryTurn ==
    Len(Conversation) - (IF AssembledFor.should_continue THEN 1 ELSE 0)

\* C34: the query turn of a similarity search is never among the matches
\* returned: every match is a turn strictly before the query turn.
C34_QueryTurnIsNoMatch ==
    IsSome(assembled) =>
        \A k \in 1..Len(Unwrap(assembled).matches) :
            Unwrap(assembled).matches[k].index < QueryTurn


\* the similarity step of the prompt assembly runs for the request: the
\* template asks for similar sentences, the conversation is not empty and an
\* embedding engine is configured
SimilarityRuns ==
    /\ Contains(Unwrap(engine_state.model_config).prompt_instruct_template,
                SIMILAR_SENTENCES)
    /\ Conversation # <<>>
    /\ IsSome(engine_state.embedding_engine)

\* what the similarity search does for the request (None: it panics)
SimilaritySearch ==
    GetSentenceSimilarityForLast(
        Unwrap(engine_state.embedding_engine),
        BuildAllVectorEmbeddings(Unwrap(engine_state.embedding_engine),
                                 Conversation, FALSE),
        IF AssembledFor.should_continue THEN 1 ELSE 0,
        DEFAULT_NUM_OF_SENTENCE_MATCHES)

\* C35: for every non-empty conversation, one of a single turn with
\* should_continue included, the index of the query turn is computed
\* without underflow and designates a turn of the conversation, and the
\* similarity search returns.
C35_QueryIndexInRange ==
    worker_pc # "infer" /\ SimilarityRuns =>
        /\ QueryTurn \in 1..Len(Conversation)
        /\ SimilaritySearch # None


\* the number of embeddings the similarity search scores: those of every
\* turn but the last, as the engine thread left them in the request's context
CandidateEmbeddings ==
    LET items == Unwrap(new_context).chatlog.items
        RECURSIVE Count(_)
        Count(i) ==
            IF i > Len(items) - 1 THEN 0
            ELSE Len(items[i].embeddings) + Count(i + 1)
    IN  Count(1)

KnobsSet ==
    {knob \in ClassicalSamplers : IsSome(Unwrap(new_context).parameters[knob])}

\* C39: on the local path, when the sampling profile's mirostat is unset or
\* 0, the sampler string holds an option for every classical knob (top_k,
\* top_p, min_p, temperature) the profile sets.
C39_ClassicalKnobsWithoutMirostat ==
    (CalledFor("text_infer") /\ ~MirostatOn) =>
        \A knob \in KnobsSet :
            \E i \in 1..Len(Unwrap(backend).samplers) :
                Unwrap(backend).samplers[i].sampler = knob


\* ------------------------------------------------- claims: turns, selection
\* the turn is in the conversation `items`, as it is or continued
TurnKept(turn, items) ==
    \E j \in 1..Len(items) :
        /\ items[j].entity = turn.entity
        /\ StartsWith(Join(items[j].lines, <<"\n">>), Join(turn.lines, <<"\n">>))

\* C32: handling the responses that have arrived never discards a turn of
\* the chat view's conversation: every reply an earlier response delivered
\* and every turn the user added while requests were in flight is still in
\* the conversation once the response channel is drained.
C32_ResponsesKeepTurns ==
    \A i \in 1..Len(chat.chatlog.items) :
        TurnKept(chat.chatlog.items[i], Drained.chatlog.items)


\* C40: whenever the chat view processes an input event, the responses
\* drained, chatlog_scroll < chatlog.len(), so the index of the selected
\* turn, chatlog.len() - chatlog_scroll - 1, does not underflow; this in
\* every state reached by scrolling, deleting turns, regenerating and
\* receiving responses, an empty conversation included.
C40_ScrollBelowLength ==
    main_pc = "ui" => Drained.chatlog_scroll < Len(Drained.chatlog.items)


\* ----------------------------------------------------- claims: chunking
\* the turn the embeddings were built for, as the engine thread left it, and
\* the chunks handed to the embedding model for it (encode_pretext is empty,
\* so an embedding's text is its chunk)
EmbeddedTurn == Unwrap(new_context).chatlog.items[1]

Chunks == [j \in 1..Len(EmbeddedTurn.embeddings) |-> EmbeddedTurn.embeddings[j].text]

\* C36: chunking a turn's text for embedding never produces an empty
\* chunk, whatever the text and the token cutoff.
C36_NoEmptyChunk ==
    IsSome(assembled) => \A j \in 1..Len(Chunks) : Chunks[j] # <<>>

\* C37: chunking a turn's text for embedding drops no text: the chunks in
\* a row are the lines of the turn's text in a row, so every line is in
\* exactly one chunk, one that did not fit the remaining budget included.
C37_NoTextDropped ==
    IsSome(assembled) =>
        Join(Chunks, <<>>) = Join(Lines(GetNameAndItemsAsString(EmbeddedTurn)), <<>>)

====
